---- MODULE Spec2Model ----
(***************************************************************************)
(* A model of the secret-course season tracker: the SQLite ledger          *)
(* (db_manager.py), the log tailer and its event handlers (log_watcher.py) *)
(* and the live-message reconciler (message_manager.py).                   *)
(*                                                                         *)
(* Text is modelled as a sequence of one-character strings, so that the    *)
(* string operations of the source (split, membership) are computed.       *)
(* A table is a sequence of rows in rowid order.                           *)
(***************************************************************************)
EXTENDS Integers, Sequences, FiniteSets, TLC

VARIABLES
    \* ---- bot database (committed contents of bot_data.db)
    seasons,          \* table seasons; a row's id is its index
    season_courses,   \* table season_courses
    course_results,   \* table course_results
    player_scores,    \* table player_scores (UNIQUE(season_id, player_name))
    bot_messages,     \* table bot_messages
    \* ---- the announcement channel and MessageManager
    remote,           \* ids of the messages that exist in the channel
    next_message_id,  \* the id the channel gives the next message sent
    toggles,          \* config message_toggles
    sync,             \* the update_all_messages call in progress
    passes,           \* history: what this call has done for each slot
    expect,           \* history: per slot, the message the previous call recreated
    \* ---- the log loop's event handler (one event at a time)
    handler,          \* position of the handler, its event and its open transaction
    reply,            \* the outcome reported for the admin's last season command
    \* ---- calculate_points applied to inputs
    cp_in,            \* the two ranks handed to calculate_points
    cp_out,           \* their results, <<>> before the call
    live_running,     \* MessageManager.running
    tasks,            \* the _update_loop tasks created: where each is, and its call in progress
    update_task,      \* MessageManager.update_task: 0 for None, else a task
    stop,             \* the stop_live_updates call: awaiting a task, or how it returned
    force,            \* the force_update call in progress
    overlap,          \* history: the tasks that were inside a call when force_update began
    live_log,         \* history: how the last start_live_updates call ended
    \* ---- the scoring settings and the leaderboard query
    scoring,          \* config: min_courses_required and best_courses_count
    lb_out,           \* <<>> or <<what get_season_leaderboard returned>>
    \* ---- the game server's log file and the position file
    log_exists,       \* whether the log file exists
    log_lines,        \* its content: one tag line per element, a line is its number
    next_line,        \* the number of the next line the server writes
    position_file,    \* log_position.txt: <<>> when absent, else <<offset>>
    \* ---- LogWatcher
    last_position,    \* self.last_position
    running,          \* self.running
    wpc,              \* where the monitoring loop is
    current_size,     \* check_log_file's current_size
    new_content,      \* check_log_file's new_content
    poll,             \* history of the last poll: what it observed and how it ended
    dispatched,       \* history: the lines handed to process_sclog_event since the process started
    historical,       \* history: <<the log at load_position>> when no offset was saved
    saving,           \* history: <<>> or <<the save_position that has opened the file and not written>>
    \* ---- the start_monitoring calls
    loops,            \* where each start_monitoring coroutine is
    cursor            \* process_new_content: the lines of the block its loop has passed

ledgerVars == <<seasons, season_courses, course_results, player_scores, handler, reply>>
pointVars == <<cp_in, cp_out>>
boardVars == <<scoring, lb_out>>
liveVars == <<live_running, tasks, update_task, stop, force, overlap, live_log>>
tailVars == <<log_exists, log_lines, next_line, position_file, last_position, running, wpc,
              current_size, new_content, poll, dispatched, historical,
             saving>>
syncVars == <<bot_messages, remote, next_message_id, toggles, sync, passes, expect>>
loopVars == <<loops, cursor>>
vars == <<ledgerVars, syncVars, pointVars, tailVars, boardVars, liveVars, loopVars>>

-----------------------------------------------------------------------------
(* Bounds *)

MaxRank == 35            \* ranks 0..MaxRank are handed to calculate_points
MaxSeasonNumber == 3     \* season numbers 1..MaxSeasonNumber of the season commands
MaxTs == 1               \* secret_until timestamps 1..MaxTs
MaxResults == 2          \* cap on the rows of course_results
MaxMessages == 4         \* messages the bot sends to the channel in a run
MaxCourses == 10         \* courses of the season the leaderboard is asked for
MaxSame == 3             \* result rows of one player with the same rank
MaxSetting == 2          \* largest number the admin gives a scoring setting
MaxLines == 4            \* lines the game server writes to its log in a run
MaxLiveMessages == 3     \* messages sent to the channel while the update loop is followed
MaxTasks == 2            \* tasks of the update loop that exist at a time
MaxBlock == 2            \* lines the game server writes while a block is followed
MaxLoops == 3            \* start_monitoring coroutines that exist at a time
MaxParts == 3            \* lines the game server writes in one or in two pieces

-----------------------------------------------------------------------------
(* Text helpers *)

RECURSIVE SumSeq(_)
SumSeq(s) == IF s = <<>> THEN 0 ELSE Head(s) + SumSeq(Tail(s))

\* str.split(ch): the pieces of s between occurrences of ch
RECURSIVE SplitFrom(_, _, _)
SplitFrom(s, ch, cur) ==
    IF s = <<>> THEN <<cur>>
    ELSE IF Head(s) = ch THEN <<cur>> \o SplitFrom(Tail(s), ch, <<>>)
         ELSE SplitFrom(Tail(s), ch, Append(cur, Head(s)))

Split(s, ch) == SplitFrom(s, ch, <<>>)

Contains(s, ch) == \E i \in 1..Len(s) : s[i] = ch

\* the display name taken to be the full name
CourseNameOf_m(full) == full

\* full_course_name.split('(')[1].split(')')[0] if '(' in full_course_name
\* else full_course_name
CourseNameOf(full) ==
    IF Contains(full, "(") THEN Split(Split(full, "(")[2], ")")[1] ELSE full

-----------------------------------------------------------------------------
(* Scoring scale: DatabaseManager.calculate_points *)

points_map == [p \in 1..10 |->
    CASE p = 1 -> 30 [] p = 2 -> 25 [] p = 3 -> 20 [] p = 4 -> 18 [] p = 5 -> 16
      [] p = 6 -> 14 [] p = 7 -> 12 [] p = 8 -> 10 [] p = 9 -> 8 [] p = 10 -> 6]

Returned(v) == [exc |-> "none", value |-> v]
Raised(e) == [exc |-> e, value |-> 0]

\* points_map[position] raises KeyError for a position <= 10 that is no key
calculate_points(position) ==
    IF position <= 10
    THEN IF position \in DOMAIN points_map THEN Returned(points_map[position])
         ELSE Raised("KeyError")
    ELSE IF position <= 15 THEN Returned(4)
    ELSE IF position <= 20 THEN Returned(3)
    ELSE IF position <= 25 THEN Returned(2)
    ELSE IF position <= 30 THEN Returned(1)
    ELSE Returned(0)

\* formatters.py, lines 292-294: the map of the course grid
grid_points_map == [p \in 1..10 |->
    CASE p = 1 -> 30 [] p = 2 -> 25 [] p = 3 -> 21 [] p = 4 -> 18 [] p = 5 -> 16
      [] p = 6 -> 14 [] p = 7 -> 12 [] p = 8 -> 10 [] p = 9 -> 8 [] p = 10 -> 6]

\* MessageFormatter.calculate_points, which create_course_grid_embed calls
\* for every standing it shows (line 204)
MessageFormatter_calculate_points(position) ==
    IF position <= 10
    THEN IF position \in DOMAIN grid_points_map THEN Returned(grid_points_map[position])
         ELSE Raised("KeyError")
    ELSE IF position <= 15 THEN Returned(4)
    ELSE IF position <= 20 THEN Returned(3)
    ELSE IF position <= 25 THEN Returned(2)
    ELSE IF position <= 30 THEN Returned(1)
    ELSE Returned(0)

-----------------------------------------------------------------------------
(* Inputs of the ledger: the tag payloads the game server may log *)

Players == {"alice", "bob"}

\* "a(x)" has a parenthesised display name, "c" has none
FullNames == { <<"a", "(", "x", ")">>, <<"c">> }

DigitChars == <<"0", "1", "2", "3", "4", "5", "6", "7", "8", "9">>
TsText(n) == <<DigitChars[n + 1]>>

\* text after 'COURSE_ADDED:': "<full name> | <ts>", and malformed ones
AddedWellFormed ==
    { <<" ">> \o name \o <<" ", "|", " ">> \o TsText(t) : name \in FullNames, t \in 1..MaxTs }
AddedMalformed ==
    { <<" ", "c">>,                          \* one segment
      <<" ", "c", " ", "|", " ", "x">>,      \* timestamp is no integer
      <<" ", "c", "|", "1", "|", "1">> }     \* three segments
AddedInputs == AddedWellFormed \cup AddedMalformed

\* text after 'COURSE_REMOVED:'
RemovedInputs == { <<" ">> \o name : name \in FullNames }

Entry(r, u) == [rank |-> r, username |-> u, duration_ms |-> 1000 * r, time_str |-> "t"]

\* standings arrays of expiry events; the last two hold an entry the loop
\* cannot process (rank 0 is no key of points_map; an entry without username)
StandingsInputs ==
    { <<Entry(1, "alice")>>,
      <<Entry(1, "bob"), Entry(2, "alice")>>,
      <<Entry(1, "bob"), Entry(0, "alice")>>,
      <<Entry(2, "alice"), [rank |-> 1, duration_ms |-> 1000, time_str |-> "t"]>> }

\* the decoded JSON object of an expiry tag, or text json.loads rejects
ExpiredWellFormed ==
    { [decodes |-> TRUE,
       obj |-> [event |-> "secret_course_expired", coursename |-> name, standings |-> st]]
      : name \in FullNames, st \in StandingsInputs }
ExpiredMalformed ==
    { [decodes |-> FALSE, obj |-> [event |-> "secret_course_expired"]],
      [decodes |-> TRUE, obj |-> [event |-> "other", coursename |-> <<"c">>]],
      [decodes |-> TRUE, obj |-> [event |-> "secret_course_expired"]] }
ExpiredInputs == ExpiredWellFormed \cup ExpiredMalformed

-----------------------------------------------------------------------------
(* Parsing of tag payloads: log_watcher.py *)

RECURSIVE LStrip(_)
LStrip(s) == IF s # <<>> /\ Head(s) = " " THEN LStrip(Tail(s)) ELSE s

RECURSIVE RStrip(_)
RStrip(s) == IF s # <<>> /\ s[Len(s)] = " " THEN RStrip(SubSeq(s, 1, Len(s) - 1)) ELSE s

\* str.strip()
Strip(s) == RStrip(LStrip(s))

IsDigit(c) == \E d \in 1..Len(DigitChars) : DigitChars[d] = c
DigitVal(c) == (CHOOSE d \in 1..Len(DigitChars) : DigitChars[d] = c) - 1

RECURSIVE DigitsVal(_, _)
DigitsVal(s, acc) == IF s = <<>> THEN acc ELSE DigitsVal(Tail(s), 10 * acc + DigitVal(Head(s)))

\* int(text): ValueError unless text is a non-empty run of digits
ParseInt(s) ==
    IF s # <<>> /\ \A i \in 1..Len(s) : IsDigit(s[i])
    THEN Returned(DigitsVal(s, 0)) ELSE Raised("ValueError")

\* handle_course_added, lines 165-171: the parsed (name, secret_until) or the
\* reason the tag is dropped
ParseCourseAdded(content) ==
    LET parts == Split(Strip(content), "|") IN
    IF Len(parts) # 2 THEN [ok |-> FALSE, why |-> "format", name |-> <<>>, ts |-> 0]
    ELSE LET ts == ParseInt(Strip(parts[2])) IN
         IF ts.exc # "none"
         THEN [ok |-> FALSE, why |-> ts.exc, name |-> Strip(parts[1]), ts |-> 0]
         ELSE [ok |-> TRUE, why |-> "", name |-> Strip(parts[1]), ts |-> ts.value]

\* handle_course_removed, line 195
ParseCourseRemoved(content) == Strip(content)

\* handle_course_expired, lines 219-230
ParseCourseExpired(payload) ==
    IF ~payload.decodes THEN [ok |-> FALSE, why |-> "JSONDecodeError"]
    ELSE IF "event" \notin DOMAIN payload.obj \/ payload.obj.event # "secret_course_expired"
    THEN [ok |-> FALSE, why |-> "event"]
    ELSE IF "coursename" \notin DOMAIN payload.obj \/ payload.obj.coursename = <<>>
    THEN [ok |-> FALSE, why |-> "coursename"]
    ELSE [ok |-> TRUE, why |-> ""]

\* event_data.get('standings', [])
StandingsOf(obj) == IF "standings" \in DOMAIN obj THEN obj.standings ELSE <<>>

-----------------------------------------------------------------------------
(* The ledger's tables and SQL statements: db_manager.py *)

\* the mutant: the newest season, whether active or not
get_active_season_m(ss) == Len(ss)

\* SELECT id ... FROM seasons WHERE is_active = TRUE; fetchone(): 0 stands
\* for None
get_active_season(ss) ==
    IF \E i \in 1..Len(ss) : ss[i].is_active
    THEN CHOOSE i \in 1..Len(ss) : ss[i].is_active /\ \A j \in 1..(i - 1) : ~ss[j].is_active
    ELSE 0

\* UPDATE seasons SET is_active = FALSE WHERE is_active = TRUE
DeactivateAll(ss) == [i \in 1..Len(ss) |-> [ss[i] EXCEPT !.is_active = FALSE]]

\* the mutant: every statement commits by itself, the UPDATE stays when the
\* INSERT fails
create_season_a(ss, season_number) ==
    LET deactivated == DeactivateAll(ss) IN
    IF \E i \in 1..Len(deactivated) : deactivated[i].season_number = season_number
    THEN [exc |-> "IntegrityError", table |-> deactivated]
    ELSE [exc |-> "none",
          table |-> Append(deactivated, [season_number |-> season_number,
                                         is_active |-> TRUE, ended |-> FALSE])]

\* the mutant: the new season is inserted without deactivating the others
create_season_m(ss, season_number) ==
    IF \E i \in 1..Len(ss) : ss[i].season_number = season_number
    THEN [exc |-> "IntegrityError", table |-> ss]
    ELSE [exc |-> "none",
          table |-> Append(ss, [season_number |-> season_number, is_active |-> TRUE,
                                ended |-> FALSE])]

\* create_season, lines 102-117: one connection, one commit. The INSERT
\* violates UNIQUE(season_number) for a number in use; the connection then
\* closes without commit and the UPDATE before it is rolled back.
create_season(ss, season_number) ==
    LET deactivated == DeactivateAll(ss) IN
    IF \E i \in 1..Len(deactivated) : deactivated[i].season_number = season_number
    THEN [exc |-> "IntegrityError", table |-> ss]
    ELSE [exc |-> "none",
          table |-> Append(deactivated, [season_number |-> season_number,
                                         is_active |-> TRUE, ended |-> FALSE])]

\* end_season, lines 152-158: UPDATE ... WHERE id = ?
end_season(ss, season_id) ==
    [i \in 1..Len(ss) |->
        IF i = season_id THEN [ss[i] EXCEPT !.is_active = FALSE, !.ended = TRUE] ELSE ss[i]]

CourseRow(season_id, full, ts) ==
    [season_id |-> season_id, course_name |-> CourseNameOf(full), full_course_name |-> full,
     secret_until |-> ts, expired |-> FALSE, final_standings |-> <<>>]

\* the mutant: a plain INSERT into a table without the UNIQUE constraint
add_season_course_m(courses, season_id, full, ts) ==
    Append(courses, CourseRow(season_id, full, ts))

\* add_season_course, lines 194-203: INSERT OR REPLACE deletes the rows that
\* conflict on UNIQUE(full_course_name), in whatever season, and inserts
add_season_course(courses, season_id, full, ts) ==
    Append(SelectSeq(courses, LAMBDA r : r.full_course_name # full),
           CourseRow(season_id, full, ts))

\* remove_season_course, lines 214-219
remove_season_course(courses, season_id, full) ==
    SelectSeq(courses, LAMBDA r : ~(r.season_id = season_id /\ r.full_course_name = full))

\* expire_course, lines 236-240: UPDATE season_courses SET expired = TRUE,
\* final_standings = json.dumps(standings_data) WHERE full_course_name = ?
\* AND season_id = ?
MarkExpired(courses, season_id, full, data) ==
    [i \in 1..Len(courses) |->
        IF courses[i].full_course_name = full /\ courses[i].season_id = season_id
        THEN [courses[i] EXCEPT !.expired = TRUE, !.final_standings = <<data>>]
        ELSE courses[i]]

ResultRow(season_id, course_name, e, pts) ==
    [season_id |-> season_id, course_name |-> course_name, player_name |-> e.username,
     position |-> e.rank, points |-> pts, duration_ms |-> e.duration_ms,
     time_str |-> e.time_str]

HasScore(scores, season_id, player) ==
    \E i \in 1..Len(scores) : scores[i].season_id = season_id /\ scores[i].player_name = player

\* the mutant: on conflict the row's total is overwritten, not added to
UpsertScore_m(scores, season_id, player, pts) ==
    IF HasScore(scores, season_id, player)
    THEN [i \in 1..Len(scores) |->
            IF scores[i].season_id = season_id /\ scores[i].player_name = player
            THEN [scores[i] EXCEPT !.total_points = pts, !.courses_completed = @ + 1]
            ELSE scores[i]]
    ELSE Append(scores, [season_id |-> season_id, player_name |-> player,
                         total_points |-> pts, courses_completed |-> 1])

\* expire_course, lines 257-263: INSERT ... ON CONFLICT(season_id,
\* player_name) DO UPDATE SET total_points = total_points + ?,
\* courses_completed = courses_completed + 1
UpsertScore(scores, season_id, player, pts) ==
    IF HasScore(scores, season_id, player)
    THEN [i \in 1..Len(scores) |->
            IF scores[i].season_id = season_id /\ scores[i].player_name = player
            THEN [scores[i] EXCEPT !.total_points = @ + pts, !.courses_completed = @ + 1]
            ELSE scores[i]]
    ELSE Append(scores, [season_id |-> season_id, player_name |-> player,
                         total_points |-> pts, courses_completed |-> 1])

\* the loop with the points looked up one rank too low
ExpireEntry_m(tx, season_id, course_name, e) ==
    LET pts == calculate_points(e.rank + 1) IN
    IF calculate_points(e.rank).exc # "none" THEN [exc |-> "KeyError", tx |-> tx]
    ELSE IF {"username", "duration_ms", "time_str"} \ DOMAIN e # {}
    THEN [exc |-> "KeyError", tx |-> tx]
    ELSE [exc |-> "none",
          tx |-> [tx EXCEPT
                    !.results = Append(@, ResultRow(season_id, course_name, e, pts.value)),
                    !.scores = UpsertScore(@, season_id, e.username, pts.value)]]

\* one pass of the loop of expire_course, lines 245-263, on the open
\* transaction tx: the new uncommitted tables, or the exception raised
\* (calculate_points' KeyError, or a KeyError for a missing key of the entry)
ExpireEntry(tx, season_id, course_name, e) ==
    LET pts == calculate_points(e.rank) IN
    IF pts.exc # "none" THEN [exc |-> pts.exc, tx |-> tx]
    ELSE IF {"username", "duration_ms", "time_str"} \ DOMAIN e # {}
    THEN [exc |-> "KeyError", tx |-> tx]
    ELSE [exc |-> "none",
          tx |-> [tx EXCEPT
                    !.results = Append(@, ResultRow(season_id, course_name, e, pts.value)),
                    !.scores = UpsertScore(@, season_id, e.username, pts.value)]]

-----------------------------------------------------------------------------
(* The event handlers of the log loop and the admin's season commands *)

Tables == [courses |-> season_courses, results |-> course_results, scores |-> player_scores]

\* handler.pre holds the tables as they were when the handler's statement or
\* transaction began, for as long as the handler has not returned
Idle == [pc |-> "idle", season |-> 0, name |-> <<>>, ts |-> 0, data |-> <<>>, i |-> 0,
         tx |-> <<>>, pre |-> <<>>]

\* The tables a whole expiry event amounts to, stated without the loop: the
\* course is flagged and holds the snapshot, one result row per standing
\* entry in order, and every player's accumulator grows by the points and the
\* number of that player's entries
EntryPoints(standings, player) ==
    SumSeq([k \in 1..Len(standings) |->
              IF standings[k].username = player THEN calculate_points(standings[k].rank).value
              ELSE 0])

EntryCount(standings, player) ==
    Cardinality({k \in 1..Len(standings) : standings[k].username = player})

ScoreOf(scores, season_id, player) ==
    IF HasScore(scores, season_id, player)
    THEN LET i == CHOOSE k \in 1..Len(scores) :
                    scores[k].season_id = season_id /\ scores[k].player_name = player
         IN [total_points |-> scores[i].total_points,
             courses_completed |-> scores[i].courses_completed]
    ELSE [total_points |-> 0, courses_completed |-> 0]

IsWholeEvent(t, pre, season_id, full, data) ==
    LET st == StandingsOf(data) IN
    /\ t.courses = MarkExpired(pre.courses, season_id, full, data)
    /\ t.results = pre.results \o
                     [k \in 1..Len(st) |->
                        ResultRow(season_id, CourseNameOf(full), st[k],
                                  calculate_points(st[k].rank).value)]
    /\ \A s \in 1..Len(seasons), p \in Players :
          /\ ScoreOf(t.scores, s, p).total_points =
                ScoreOf(pre.scores, s, p).total_points
                + (IF s = season_id THEN EntryPoints(st, p) ELSE 0)
          /\ ScoreOf(t.scores, s, p).courses_completed =
                ScoreOf(pre.scores, s, p).courses_completed
                + (IF s = season_id THEN EntryCount(st, p) ELSE 0)

\* the mutant: every statement is durable as soon as it is executed
\* (a connection in autocommit mode)
Durable_m(committed, uncommitted) == uncommitted

\* What bot_data.db holds after a statement was executed on the connection of
\* expire_course and before db.commit(): the statement is part of an open
\* transaction, which is lost when the connection closes or the process dies
Durable(committed, uncommitted) == committed

SetTables(t) ==
    /\ season_courses' = t.courses
    /\ course_results' = t.results
    /\ player_scores' = t.scores

\* process_sclog_event -> handle_course_added, lines 163-177: a malformed
\* payload is dropped, and so is the event when no season is active
DispatchCourseAdded(content) ==
    /\ handler.pc = "idle"
    /\ LET p == ParseCourseAdded(content)
           season == get_active_season(seasons) IN
       IF p.ok /\ season # 0
       THEN handler' = [Idle EXCEPT !.pc = "add", !.season = season, !.name = p.name,
                                    !.ts = p.ts]
       ELSE UNCHANGED handler
    /\ UNCHANGED <<seasons, season_courses, course_results, player_scores>>

\* handle_course_added, line 180 -> add_season_course
AddSeasonCourse ==
    /\ handler.pc = "add"
    /\ season_courses' = add_season_course(season_courses, handler.season, handler.name,
                                           handler.ts)
    /\ handler' = [handler EXCEPT !.pc = "add_done", !.pre = <<Tables>>]
    /\ UNCHANGED <<seasons, course_results, player_scores>>

\* process_sclog_event -> handle_course_removed, lines 195-200
DispatchCourseRemoved(content) ==
    /\ handler.pc = "idle"
    /\ LET name == ParseCourseRemoved(content)
           season == get_active_season(seasons) IN
       IF season # 0
       THEN handler' = [Idle EXCEPT !.pc = "remove", !.season = season, !.name = name]
       ELSE UNCHANGED handler
    /\ UNCHANGED <<seasons, season_courses, course_results, player_scores>>

\* handle_course_removed, line 202 -> remove_season_course
RemoveSeasonCourse ==
    /\ handler.pc = "remove"
    /\ season_courses' = remove_season_course(season_courses, handler.season, handler.name)
    /\ handler' = [handler EXCEPT !.pc = "remove_done", !.pre = <<Tables>>]
    /\ UNCHANGED <<seasons, course_results, player_scores>>

\* the rows an expiry event adds to course_results if it commits (the bound
\* MaxResults caps the table)
Committable(standings) ==
    IF \A k \in 1..Len(standings) :
          ExpireEntry(Tables, 0, <<>>, standings[k]).exc = "none"
    THEN Len(standings) ELSE 0

\* process_sclog_event -> handle_course_expired, lines 219-233, and
\* expire_course, lines 228-233 (connect, get_active_season)
DispatchCourseExpired(payload) ==
    /\ handler.pc = "idle"
    /\ LET p == ParseCourseExpired(payload)
           season == get_active_season(seasons) IN
       IF p.ok /\ season # 0
       THEN /\ Len(course_results) + Committable(StandingsOf(payload.obj)) <= MaxResults
            /\ handler' = [Idle EXCEPT !.pc = "expire", !.season = season,
                                       !.name = payload.obj.coursename,
                                       !.data = <<payload.obj>>]
       ELSE UNCHANGED handler
    /\ UNCHANGED <<seasons, season_courses, course_results, player_scores>>

\* expire_course, lines 236-243: the UPDATE opens the transaction
ExpireUpdate ==
    /\ handler.pc = "expire"
    /\ LET tx == [Tables EXCEPT !.courses = MarkExpired(@, handler.season, handler.name,
                                                        handler.data[1])] IN
       /\ handler' = [handler EXCEPT !.pc = "expire_loop", !.i = 1, !.tx = <<tx>>,
                                     !.pre = <<Tables>>]
       /\ SetTables(Durable(Tables, tx))
    /\ UNCHANGED seasons

\* expire_course, lines 245-263 and 268-270: one standing entry; an
\* exception leaves the with block, which closes the connection uncommitted
ExpireResult ==
    /\ handler.pc = "expire_loop"
    /\ handler.i <= Len(StandingsOf(handler.data[1]))
    /\ LET r == ExpireEntry(handler.tx[1], handler.season, CourseNameOf(handler.name),
                            StandingsOf(handler.data[1])[handler.i]) IN
       IF r.exc # "none"
       THEN /\ handler' = [handler EXCEPT !.pc = "expire_raised", !.tx = <<>>]
            /\ UNCHANGED <<season_courses, course_results, player_scores>>
       ELSE /\ handler' = [handler EXCEPT !.i = @ + 1, !.tx = <<r.tx>>]
            /\ SetTables(Durable(Tables, r.tx))
    /\ UNCHANGED seasons

\* expire_course, line 265: db.commit()
ExpireCommit ==
    /\ handler.pc = "expire_loop"
    /\ handler.i > Len(StandingsOf(handler.data[1]))
    /\ SetTables(handler.tx[1])
    /\ handler' = [handler EXCEPT !.pc = "expire_done", !.tx = <<>>]
    /\ UNCHANGED seasons

\* the rest of a handler after its database call: the log lines and the
\* notify_* call (lines 182-186, 204-207, 235-239), or the except clause
\* that logs the exception of expire_course (lines 243-244)
HandlerReturn ==
    /\ handler.pc \in {"add_done", "remove_done", "expire_done", "expire_raised"}
    /\ handler' = Idle
    /\ UNCHANGED <<seasons, season_courses, course_results, player_scores>>

\* the process dies while a handler is at an await: the open transaction, if
\* any, is rolled back by SQLite when the database is next opened
Crash ==
    /\ handler.pc \notin {"idle", "crashed"}
    /\ handler' = [handler EXCEPT !.pc = "crashed", !.tx = <<>>]
    /\ UNCHANGED <<seasons, season_courses, course_results, player_scores>>

\* the process is started again
Restart ==
    /\ handler.pc = "crashed"
    /\ handler' = Idle
    /\ UNCHANGED <<seasons, season_courses, course_results, player_scores>>

\* the admin starts a season: create_season. A writer waits for the open
\* transaction of another connection (SQLite's lock), so the command runs
\* between transactions.
CreateSeason(season_number) ==
    /\ handler.tx = <<>>
    /\ handler.pc # "crashed"
    /\ seasons' = create_season(seasons, season_number).table
    /\ UNCHANGED <<season_courses, course_results, player_scores, handler>>

\* the admin ends a season: end_season
EndSeason(season_id) ==
    /\ handler.tx = <<>>
    /\ handler.pc # "crashed"
    /\ seasons' = end_season(seasons, season_id)
    /\ UNCHANGED <<season_courses, course_results, player_scores, handler>>

-----------------------------------------------------------------------------
(* The season leaderboard: DatabaseManager.get_season_leaderboard *)

\* config.py, lines 39-40: the scoring settings as shipped; no query has run
BoardOff ==
    /\ scoring = [min_courses_required |-> 0, best_courses_count |-> 0]
    /\ lb_out = <<>>

\* player names in the order SQLite's ORDER BY player_name yields them
PlayerOrder == <<"alice", "bob">>

Min(a, b) == IF a <= b THEN a ELSE b
Max(a, b) == IF a >= b THEN a ELSE b

\* points DESC: x goes behind every element that is not smaller
RECURSIVE InsertDesc(_, _)
InsertDesc(s, x) ==
    IF s = <<>> THEN <<x>>
    ELSE IF x > Head(s) THEN <<x>> \o s
    ELSE <<Head(s)>> \o InsertDesc(Tail(s), x)

\* ORDER BY points DESC and results.sort(reverse=True): a stable sort
RECURSIVE SortDesc(_)
SortDesc(s) ==
    IF s = <<>> THEN <<>>
    ELSE InsertDesc(SortDesc(SubSeq(s, 1, Len(s) - 1)), s[Len(s)])

\* the mutant: the key -total_points alone
RanksBefore_m(a, b) == a.total_points > b.total_points

\* line 383: the key (-total_points, -courses_completed)
RanksBefore(a, b) ==
    \/ a.total_points > b.total_points
    \/ a.total_points = b.total_points /\ a.courses_completed > b.courses_completed

RECURSIVE InsertEntry(_, _)
InsertEntry(s, x) ==
    IF s = <<>> THEN <<x>>
    ELSE IF RanksBefore(x, Head(s)) THEN <<x>> \o s
    ELSE <<Head(s)>> \o InsertEntry(Tail(s), x)

\* final_leaderboard.sort: a stable sort
RECURSIVE SortEntries(_)
SortEntries(s) ==
    IF s = <<>> THEN <<>>
    ELSE InsertEntry(SortEntries(SubSeq(s, 1, Len(s) - 1)), s[Len(s)])

\* lines 323-341: the points of a player's rows of the season, ORDER BY
\* points DESC
PlayerResults(results, season_id, player) ==
    LET rows == SelectSeq(results, LAMBDA r : r.season_id = season_id /\ r.player_name = player)
        pts == [k \in 1..Len(rows) |-> rows[k].points]
    IN SortDesc(pts)

\* lines 344-347: SELECT COUNT(*) FROM season_courses WHERE season_id = ?
TotalCourses(courses, season_id) ==
    Cardinality({i \in 1..Len(courses) : courses[i].season_id = season_id})

\* line 355
min_courses_required == 0

\* the gate read from the settings instead
MinCoursesRequired_m(settings) == settings.min_courses_required

\* lines 354-355: the gate the query applies, whatever the settings hold
MinCoursesRequired(settings) == min_courses_required

\* 60% rounded down
best_courses_count_m(total_courses) == Max(1, (6 * total_courses) \div 10)

\* line 356: max(1, int(0.6 * total_courses + 0.5))
best_courses_count(total_courses) == Max(1, (6 * total_courses + 5) \div 10)

\* lines 362-380: one player's entry, or <<>> when the gate drops the player
PlayerEntry(results, season_id, player, total_courses, settings) ==
    LET pts == PlayerResults(results, season_id, player)
        courses_completed == Len(pts)
        gate == MinCoursesRequired(settings)
        best_scores == SubSeq(SortDesc(pts), 1,
                              Min(best_courses_count(total_courses), Len(pts)))
    IN IF courses_completed = 0 THEN <<>>
       ELSE IF gate # 0 /\ courses_completed < gate THEN <<>>
       ELSE << [username |-> player, total_points |-> SumSeq(best_scores),
                courses_completed |-> courses_completed,
                courses_counted |-> Len(best_scores)] >>

RECURSIVE Entries(_, _, _, _, _)
Entries(results, season_id, players, total_courses, settings) ==
    IF players = <<>> THEN <<>>
    ELSE PlayerEntry(results, season_id, Head(players), total_courses, settings)
         \o Entries(results, season_id, Tail(players), total_courses, settings)

\* get_season_leaderboard: [] for a season without courses; else the entries
\* sorted by (-total_points, -courses_completed), numbered from 1
get_season_leaderboard(results, courses, season_id, settings) ==
    LET total_courses == TotalCourses(courses, season_id) IN
    IF total_courses = 0 THEN <<>>
    ELSE LET sorted == SortEntries(Entries(results, season_id, PlayerOrder, total_courses,
                                           settings))
         IN [i \in 1..Len(sorted) |->
               [username |-> sorted[i].username, total_points |-> sorted[i].total_points,
                courses_completed |-> sorted[i].courses_completed,
                courses_counted |-> sorted[i].courses_counted, position |-> i]]

\* handle_config_scoring, lines 381-399: 'min <n>' and 'best <n>' store the
\* number, a negative one is refused
ConfigScoring(setting_type, number) ==
    /\ lb_out = <<>>
    /\ scoring' = IF number < 0 THEN scoring
                  ELSE IF setting_type = "min"
                       THEN [scoring EXCEPT !.min_courses_required = number]
                       ELSE [scoring EXCEPT !.best_courses_count = number]
    /\ scoring' # scoring
    /\ UNCHANGED lb_out

\* the leaderboard of season 1 is queried
GetSeasonLeaderboard ==
    /\ lb_out = <<>>
    /\ lb_out' = <<get_season_leaderboard(course_results, season_courses, 1, scoring)>>
    /\ UNCHANGED scoring

-----------------------------------------------------------------------------
(* MessageManager: one update_all_messages call, slot by slot *)

\* the three message types, in the order update_all_messages handles them
Slots == <<"season_summary", "season_standings", "course_grid">>
SlotTypes == {Slots[k] : k \in 1..Len(Slots)}

\* SELECT over bot_messages for a season, as a dict keyed by message type:
\* a later row replaces an earlier one of its type; 0 stands for no entry
get_message_ids(rows, season_id) ==
    [t \in SlotTypes |->
        LET idx == {i \in 1..Len(rows) : rows[i].message_type = t /\ rows[i].season_id = season_id} IN
        IF idx = {} THEN 0
        ELSE rows[CHOOSE i \in idx : \A j \in idx : j <= i].message_id]

\* INSERT INTO bot_messages: the table declares no UNIQUE(message_type, season_id)
store_message_id(rows, message_type, channel_id, message_id, season_id) ==
    Append(rows, [message_type |-> message_type, channel_id |-> channel_id,
                  message_id |-> message_id, season_id |-> season_id])

\* DELETE FROM bot_messages WHERE message_type = ? AND season_id = ?
delete_message_id(rows, message_type, season_id) ==
    SelectSeq(rows, LAMBDA r : ~(r.message_type = message_type /\ r.season_id = season_id))

NoPass == [done |-> FALSE, gone |-> FALSE, deleted |-> FALSE, sent |-> 0, new |-> 0, edited |-> 0,
           render_failed |-> FALSE]
NoSync == [pc |-> "idle", season |-> 0, stored |-> [t \in SlotTypes |-> 0], slot |-> 0,
           message |-> 0]

\* nothing tracked, an empty channel, MessageManager as constructed
SyncOff ==
    /\ bot_messages = <<>>
    /\ remote = {}
    /\ next_message_id = 1
    /\ toggles = [t \in SlotTypes |-> TRUE]
    /\ sync = NoSync
    /\ passes = [t \in SlotTypes |-> NoPass]
    /\ expect = [t \in SlotTypes |-> 0]

\* update_all_messages, lines 107-123: after slot k, the next enabled slot,
\* whose embed is created first, or the return
AfterSlot(s, k) ==
    LET later == {j \in (k + 1)..Len(Slots) : toggles[Slots[j]]} IN
    IF later = {} THEN NoSync
    ELSE LET j == CHOOSE j \in later : \A i \in later : j <= i IN
         [s EXCEPT !.slot = j, !.message = 0, !.pc = "render"]

\* update_all_messages, lines 82-105: the active season, the stored ids and the
\* toggles, then the first enabled slot. The leaderboard and the courses read
\* at lines 97-99 fill the embeds; they do not decide what is fetched, sent or
\* stored.
UpdateAllMessages ==
    /\ sync.pc = "idle"
    /\ get_active_season(seasons) # 0
    /\ LET season_id == get_active_season(seasons) IN
       sync' = AfterSlot([NoSync EXCEPT !.season = season_id,
                                        !.stored = get_message_ids(bot_messages, season_id)], 0)
    /\ passes' = [t \in SlotTypes |-> NoPass]
    /\ expect' = [t \in SlotTypes |->
                    IF passes[t].done /\ passes[t].gone /\ passes[t].sent = 1
                       /\ passes[t].new \in remote
                    THEN passes[t].new ELSE 0]
    /\ UNCHANGED <<bot_messages, remote, next_message_id, toggles>>

\* update_all_messages, lines 108-123: MessageFormatter creates the slot's
\* embed; _update_message, lines 134-138: with a stored id, fetch first
CreateEmbed ==
    /\ sync.pc = "render"
    /\ sync' = [sync EXCEPT !.pc = IF sync.stored[Slots[sync.slot]] # 0 THEN "fetch" ELSE "send"]
    /\ UNCHANGED <<bot_messages, remote, next_message_id, toggles, passes, expect>>

\* update_all_messages, lines 108-123 and 127-128: MessageFormatter raises;
\* the call is an argument of _update_message, evaluated outside its try, so
\* the handler of update_all_messages logs it and the call returns
CreateEmbedFails ==
    /\ sync.pc = "render"
    /\ passes' = [passes EXCEPT ![Slots[sync.slot]].render_failed = TRUE]
    /\ sync' = NoSync
    /\ UNCHANGED <<bot_messages, remote, next_message_id, toggles, expect>>

\* _update_message, lines 140-143: fetch_message answers for the stored id;
\* NotFound leads to delete_message_id
FetchMessage ==
    /\ sync.pc = "fetch"
    /\ LET t == Slots[sync.slot]
           id == sync.stored[t] IN
       IF id \in remote
       THEN /\ sync' = [sync EXCEPT !.pc = "edit", !.message = id]
            /\ UNCHANGED passes
       ELSE /\ sync' = [sync EXCEPT !.pc = "delete"]
            /\ passes' = [passes EXCEPT ![t].gone = TRUE]
    /\ UNCHANGED <<bot_messages, remote, next_message_id, toggles, expect>>

\* _update_message, lines 144-152: fetch_message raises something other than
\* NotFound; the warning is logged, message stays None and the send follows
FetchFails ==
    /\ sync.pc = "fetch"
    /\ LET t == Slots[sync.slot]
           id == sync.stored[t] IN
       /\ passes' = [passes EXCEPT ![t].gone = (id \notin remote)]
       /\ sync' = [sync EXCEPT !.pc = "send"]
    /\ UNCHANGED <<bot_messages, remote, next_message_id, toggles, expect>>

\* _update_message, line 143: the stale mapping is deleted
DeleteMessageId ==
    /\ sync.pc = "delete"
    /\ LET t == Slots[sync.slot] IN
       /\ bot_messages' = delete_message_id(bot_messages, t, sync.season)
       /\ passes' = [passes EXCEPT ![t].deleted = TRUE]
    /\ sync' = [sync EXCEPT !.pc = "send"]
    /\ UNCHANGED <<remote, next_message_id, toggles, expect>>

\* _update_message, lines 149 and 156: the edit; it raises NotFound when the
\* message was deleted since the fetch, which line 156 logs
EditMessage ==
    /\ sync.pc = "edit"
    /\ LET t == Slots[sync.slot] IN
       passes' = [passes EXCEPT ![t].done = TRUE,
                                ![t].edited = IF sync.message \in remote THEN sync.message ELSE 0]
    /\ sync' = AfterSlot(sync, sync.slot)
    /\ UNCHANGED <<bot_messages, remote, next_message_id, toggles, expect>>

\* _update_message, line 152: a new message is sent
SendMessage ==
    /\ sync.pc = "send"
    /\ next_message_id <= MaxMessages
    /\ remote' = remote \cup {next_message_id}
    /\ next_message_id' = next_message_id + 1
    /\ LET t == Slots[sync.slot] IN
       passes' = [passes EXCEPT ![t].sent = @ + 1, ![t].new = next_message_id]
    /\ sync' = [sync EXCEPT !.pc = "store", !.message = next_message_id]
    /\ UNCHANGED <<bot_messages, toggles, expect>>

\* _update_message, line 153: its id is stored
StoreMessageId ==
    /\ sync.pc = "store"
    /\ LET t == Slots[sync.slot] IN
       /\ bot_messages' = store_message_id(bot_messages, t, "channel", sync.message, sync.season)
       /\ passes' = [passes EXCEPT ![t].done = TRUE]
    /\ sync' = AfterSlot(sync, sync.slot)
    /\ UNCHANGED <<remote, next_message_id, toggles, expect>>

\* somebody deletes one of the bot's messages in the channel
ExternalDelete(id) ==
    /\ id \in remote
    /\ remote' = remote \ {id}
    /\ expect' = [t \in SlotTypes |-> IF expect[t] = id THEN 0 ELSE expect[t]]
    /\ UNCHANGED <<bot_messages, next_message_id, toggles, sync, passes>>

-----------------------------------------------------------------------------
(* MessageManager: the update loop's task, stop_live_updates and force_update *)

\* a call of update_all_messages: where it is suspended and what it holds.
\* cancel: Task.cancel() was called and CancelledError is not yet raised in
\* the task; at: where the task was when CancelledError was raised in it;
\* deleted, sends: what the call has done for its slot and which slots it has
\* sent a message for.
NoRun == [pc |-> "none", cancel |-> FALSE, at |-> "none", season |-> 0,
          stored |-> [t \in SlotTypes |-> 0], slot |-> 0, message |-> 0,
          deleted |-> FALSE, sends |-> {}]

Tasks == 1..MaxTasks

\* MessageManager as constructed: running False, update_task None
LiveOff ==
    /\ live_running = FALSE
    /\ tasks = [k \in Tasks |-> NoRun]
    /\ update_task = 0
    /\ stop = [pc |-> "idle", task |-> 0, finished |-> FALSE]
    /\ force = NoRun
    /\ overlap = {}
    /\ live_log = ""

\* suspended at one of the awaits of _update_message
InReconcile(r) == r.pc \in {"fetch", "delete", "edit", "send", "store"}

\* update_all_messages, lines 107-125: after slot k the next enabled slot's
\* embed is created and _update_message runs to its first await (140 with a
\* stored id, else 152); after the last slot the call returns and its caller
\* goes on at `after`
NextSlot(r, k, after) ==
    LET later == {j \in (k + 1)..Len(Slots) : toggles[Slots[j]]} IN
    IF later = {} THEN [NoRun EXCEPT !.pc = after, !.sends = r.sends]
    ELSE LET j == CHOOSE j \in later : \A i \in later : j <= i IN
         [r EXCEPT !.slot = j, !.message = 0, !.deleted = FALSE,
                   !.pc = IF r.stored[Slots[j]] # 0 THEN "fetch" ELSE "send"]

\* update_all_messages, lines 82-105: without an active season the call
\* returns; else it reads the stored ids and starts on the first enabled slot
BeginRun(r, after) ==
    LET season_id == get_active_season(seasons) IN
    IF season_id = 0 THEN [r EXCEPT !.pc = after]
    ELSE NextSlot([r EXCEPT !.season = season_id,
                            !.stored = get_message_ids(bot_messages, season_id),
                            !.sends = {}], 0, after)

\* _update_message, lines 140-153: the call after the await it is suspended at
\* has completed; fails: fetch_message raised something other than NotFound
Resume(r, after, fails) ==
    LET t == Slots[r.slot] IN
    CASE r.pc = "fetch" ->
            IF fails THEN [r EXCEPT !.pc = "send"]
            ELSE IF r.stored[t] \in remote
                 THEN [r EXCEPT !.pc = "edit", !.message = r.stored[t]]
                 ELSE [r EXCEPT !.pc = "delete"]
      [] r.pc = "delete" -> [r EXCEPT !.pc = "send", !.deleted = TRUE]
      [] r.pc = "send" -> [r EXCEPT !.pc = "store", !.message = next_message_id,
                                    !.sends = @ \cup {t}]
      [] OTHER -> NextSlot(r, r.slot, after)

\* _update_message, lines 143, 152 and 153: what the completed await did to
\* the table and to the channel
Reconcile(r) ==
    LET t == Slots[r.slot] IN
    /\ r.pc = "send" => next_message_id <= MaxLiveMessages
    /\ bot_messages' =
          CASE r.pc = "delete" -> delete_message_id(bot_messages, t, r.season)
            [] r.pc = "store" -> store_message_id(bot_messages, t, "channel", r.message, r.season)
            [] OTHER -> bot_messages
    /\ remote' = IF r.pc = "send" THEN remote \cup {next_message_id} ELSE remote
    /\ next_message_id' = IF r.pc = "send" THEN next_message_id + 1 ELSE next_message_id

\* start_live_updates, lines 31-47; every caller has set or tested
\* live_messages_enabled, and the channel is configured
StartLiveUpdates ==
    IF live_running
    THEN /\ live_log' = "Live updates already running"
         /\ UNCHANGED <<live_running, tasks, update_task>>
    ELSE \E k \in Tasks :
            /\ tasks[k].pc \in {"none", "done"}
            /\ ~(stop.pc = "await" /\ stop.task = k)
            /\ \A j \in Tasks : (tasks[j].pc \in {"none", "done"}
                                 /\ ~(stop.pc = "await" /\ stop.task = j)) => k <= j
            /\ live_running' = TRUE
            /\ tasks' = [tasks EXCEPT ![k] = [NoRun EXCEPT !.pc = "test"]]
            /\ update_task' = k
            /\ live_log' = "Starting live message updates"

\* start_live_updates with its effect on the history
StartCall ==
    /\ StartLiveUpdates
    /\ overlap' = {k \in overlap : tasks'[k] = tasks[k]}
    /\ UNCHANGED <<stop, force, bot_messages, remote, next_message_id, toggles>>

\* stop_live_updates, lines 51-58: the flag, cancel(), and the await begins;
\* the admin's stop commands are followed one call at a time
StopLiveUpdates ==
    /\ stop.pc # "await"
    /\ IF ~live_running
       THEN /\ stop' = [pc |-> "returned", task |-> 0,
                        finished |-> \A k \in Tasks : tasks[k].pc \in {"none", "done"}]
            /\ UNCHANGED <<live_running, tasks>>
       ELSE /\ live_running' = FALSE
            /\ tasks' = [tasks EXCEPT ![update_task].cancel = (tasks[update_task].pc # "done")]
            /\ stop' = [pc |-> "await", task |-> update_task, finished |-> FALSE]
    /\ UNCHANGED <<update_task, force, overlap, live_log, bot_messages, remote, next_message_id, toggles>>

\* the mutant: stop_live_updates returns without awaiting the task
StopLiveUpdatesReturns_m ==
    /\ stop.pc = "await"
    /\ stop' = [stop EXCEPT !.pc = "returned", !.finished = (tasks[stop.task].pc = "done")]
    /\ UNCHANGED <<live_running, tasks, update_task, force, overlap, live_log,
                   bot_messages, remote, next_message_id, toggles>>

\* stop_live_updates, lines 58-62: the awaited task is done and the call returns
StopLiveUpdatesReturns ==
    /\ stop.pc = "await"
    /\ tasks[stop.task].pc = "done"
    /\ stop' = [stop EXCEPT !.pc = "returned", !.finished = (tasks[stop.task].pc = "done")]
    /\ UNCHANGED <<live_running, tasks, update_task, force, overlap, live_log,
                   bot_messages, remote, next_message_id, toggles>>

\* _update_loop, lines 66-68: the loop test, then update_all_messages up to
\* its first await
UpdateLoopTest(k) ==
    /\ tasks[k].pc = "test"
    /\ ~tasks[k].cancel
    /\ tasks' = [tasks EXCEPT ![k] = IF live_running THEN BeginRun(@, "sleep")
                                     ELSE [@ EXCEPT !.pc = "done"]]
    /\ overlap' = overlap \ {k}
    /\ UNCHANGED <<live_running, update_task, stop, force, live_log,
                   bot_messages, remote, next_message_id, toggles>>

\* _update_loop, line 68: one await of the task's update_all_messages completes
UpdateLoopStep(k, fails) ==
    /\ InReconcile(tasks[k])
    /\ ~tasks[k].cancel
    /\ fails => tasks[k].pc = "fetch"
    /\ Reconcile(tasks[k])
    /\ tasks' = [tasks EXCEPT ![k] = Resume(@, "sleep", fails)]
    /\ UNCHANGED <<live_running, update_task, stop, force, overlap, live_log, toggles>>

\* _update_loop, lines 70-71: the interval has passed
UpdateLoopSleep(k) ==
    /\ tasks[k].pc = "sleep"
    /\ ~tasks[k].cancel
    /\ tasks' = [tasks EXCEPT ![k].pc = "test"]
    /\ UNCHANGED <<live_running, update_task, stop, force, overlap, live_log,
                   bot_messages, remote, next_message_id, toggles>>

\* _update_loop, lines 73-74: CancelledError is raised at the await the task
\* is suspended at. It is not an Exception, so the handlers at lines 127, 144
\* and 156 let it pass, and the loop breaks; a task cancelled before its first
\* step never runs.
UpdateLoopCancelled(k) ==
    /\ tasks[k].cancel
    /\ tasks[k].pc \notin {"none", "done"}
    /\ tasks' = [tasks EXCEPT ![k] = [NoRun EXCEPT !.pc = "done", !.at = tasks[k].pc,
                                                 !.deleted = tasks[k].deleted]]
    /\ UNCHANGED <<live_running, update_task, stop, force, overlap, live_log,
                   bot_messages, remote, next_message_id, toggles>>

\* force_update, lines 177-182: update_all_messages is called whatever the
\* loop's task is doing
ForceUpdate ==
    /\ force.pc = "none"
    /\ force' = BeginRun(NoRun, "none")
    /\ overlap' = {k \in Tasks : InReconcile(tasks[k]) /\ ~tasks[k].cancel}
    /\ UNCHANGED <<live_running, tasks, update_task, stop, live_log,
                   bot_messages, remote, next_message_id, toggles>>

\* force_update, lines 182-184: one await of its update_all_messages completes
ForceUpdateStep(fails) ==
    /\ InReconcile(force)
    /\ fails => force.pc = "fetch"
    /\ Reconcile(force)
    /\ force' = Resume(force, "none", fails)
    /\ UNCHANGED <<live_running, tasks, update_task, stop, overlap, live_log, toggles>>

-----------------------------------------------------------------------------
(* LogWatcher: the position file and one poll of the log *)

\* str(n) for a natural number
RECURSIVE IntText(_)
IntText(n) ==
    IF n < 10 THEN <<DigitChars[n + 1]>>
    ELSE IntText(n \div 10) \o <<DigitChars[(n % 10) + 1]>>

Range(s) == {s[i] : i \in 1..Len(s)}

\* what a poll has observed and how it ended
NoPoll == [rotated |-> FALSE, result |-> "", whole |-> FALSE]

\* LogWatcher.__init__, and neither file on disk
WatcherOff ==
    /\ log_exists = FALSE
    /\ log_lines = <<>>
    /\ next_line = 1
    /\ position_file = <<>>
    /\ last_position = 0
    /\ running = FALSE
    /\ wpc = "off"
    /\ current_size = 0
    /\ new_content = <<>>
    /\ poll = NoPoll
    /\ dispatched = {}
    /\ historical = <<>>
    /\ saving = <<>>

\* load_position with the branch that reads the log's size removed
load_position_m(pos_file, exists, size, last) ==
    IF pos_file # <<>>
    THEN LET r == ParseInt(Strip(pos_file[1])) IN IF r.exc = "none" THEN r.value ELSE 0
    ELSE last

\* load_position: the saved offset; without a position file the size of the log
\* if there is one; 0 when the saved text is no integer
load_position(pos_file, exists, size, last) ==
    IF pos_file # <<>>
    THEN LET r == ParseInt(Strip(pos_file[1])) IN IF r.exc = "none" THEN r.value ELSE 0
    ELSE IF exists THEN size ELSE last

\* check_log_file without the rotation test
OffsetAfterStat_m(size, last) == last

\* check_log_file, lines 98-100: a size below the offset resets the offset
OffsetAfterStat(size, last) == IF size < last THEN 0 ELSE last

\* start_monitoring up to the loop: the running flag and load_position
StartMonitoring ==
    /\ wpc = "off"
    /\ ~running
    /\ running' = TRUE
    /\ last_position' = load_position(position_file, log_exists, Len(log_lines), last_position)
    /\ historical' = IF position_file = <<>> /\ log_exists THEN <<log_lines>> ELSE <<>>
    /\ poll' = NoPoll
    /\ wpc' = "loaded"
    /\ UNCHANGED <<log_exists, log_lines, next_line, position_file, current_size,
                   new_content, dispatched, saving>>

\* stop_monitoring, called while the loop is suspended at an await (the loop
\* test and the stat of check_log_file run without one in between)
StopMonitoring ==
    /\ running
    /\ wpc # "poll"
    /\ running' = FALSE
    /\ UNCHANGED <<log_exists, log_lines, next_line, position_file, last_position, wpc,
                   current_size, new_content, poll, dispatched, historical, saving>>

\* the loop's test, on entry and after each sleep
LoopTest ==
    /\ wpc \in {"loaded", "sleep"}
    /\ wpc' = IF running THEN "poll" ELSE "off"
    /\ UNCHANGED <<log_exists, log_lines, next_line, position_file, last_position, running,
                   current_size, new_content, poll, dispatched, historical, saving>>

\* the mutant: a missing log is taken as a rotation and resets the offset
CheckStat_m ==
    /\ wpc = "poll"
    /\ new_content' = <<>>
    /\ IF ~log_exists
       THEN /\ poll' = [rotated |-> TRUE, result |-> "missing", whole |-> FALSE]
            /\ wpc' = "sleep"
            /\ last_position' = 0
            /\ UNCHANGED current_size
       ELSE LET size == Len(log_lines)
                lp == OffsetAfterStat(size, last_position) IN
            /\ current_size' = size
            /\ last_position' = lp
            /\ poll' = [rotated |-> size < last_position,
                        result |-> IF size = lp THEN "nochange" ELSE "",
                        whole |-> FALSE]
            /\ wpc' = IF size = lp THEN "sleep" ELSE "read"
    /\ UNCHANGED <<log_exists, log_lines, next_line, position_file, running, dispatched,
                   historical, saving>>

\* check_log_file, lines 90-104: the existence test, the size, the rotation test
\* and the no-new-content return
CheckStat ==
    /\ wpc = "poll"
    /\ new_content' = <<>>
    /\ IF ~log_exists
       THEN /\ poll' = [rotated |-> FALSE, result |-> "missing", whole |-> FALSE]
            /\ wpc' = "sleep"
            /\ UNCHANGED <<current_size, last_position>>
       ELSE LET size == Len(log_lines)
                lp == OffsetAfterStat(size, last_position) IN
            /\ current_size' = size
            /\ last_position' = lp
            /\ poll' = [rotated |-> size < last_position,
                        result |-> IF size = lp THEN "nochange" ELSE "",
                        whole |-> FALSE]
            /\ wpc' = IF size = lp THEN "sleep" ELSE "read"
    /\ UNCHANGED <<log_exists, log_lines, next_line, position_file, running, dispatched,
                   historical, saving>>

\* the mutant: the exception of the open ends the loop
CheckRead_m ==
    /\ wpc = "read"
    /\ IF ~log_exists
       THEN /\ poll' = [poll EXCEPT !.result = "error"]
            /\ wpc' = "off"
            /\ UNCHANGED <<new_content, last_position>>
       ELSE LET content == SubSeq(log_lines, last_position + 1, Len(log_lines)) IN
            /\ new_content' = content
            /\ last_position' = current_size
            /\ poll' = [poll EXCEPT !.result = "read", !.whole = (content = log_lines)]
            /\ wpc' = IF content # <<>> THEN "process" ELSE "sleep"
    /\ UNCHANGED <<log_exists, log_lines, next_line, position_file, running, current_size,
                   dispatched, historical, saving>>

\* check_log_file, lines 107-112 and 116: open, seek, read to the end of the
\* file, last_position = current_size; a file that is gone raises, which line
\* 116 logs
CheckRead ==
    /\ wpc = "read"
    /\ IF ~log_exists
       THEN /\ poll' = [poll EXCEPT !.result = "error"]
            /\ wpc' = "sleep"
            /\ UNCHANGED <<new_content, last_position>>
       ELSE LET content == SubSeq(log_lines, last_position + 1, Len(log_lines)) IN
            /\ new_content' = content
            /\ last_position' = current_size
            /\ poll' = [poll EXCEPT !.result = "read", !.whole = (content = log_lines)]
            /\ wpc' = IF content # <<>> THEN "process" ELSE "sleep"
    /\ UNCHANGED <<log_exists, log_lines, next_line, position_file, running, current_size,
                   dispatched, historical, saving>>

\* process_new_content: every tag line goes to process_sclog_event
ProcessNewContent ==
    /\ wpc = "process"
    /\ dispatched' = dispatched \cup Range(new_content)
    /\ wpc' = "save_open"
    /\ UNCHANGED <<log_exists, log_lines, next_line, position_file, last_position, running,
                   current_size, new_content, poll, historical, saving>>

\* save_position, line 81: opening for writing empties the position file
SaveOpen ==
    /\ wpc = "save_open"
    /\ position_file' = << <<>> >>
    /\ saving' = <<[previous |-> position_file, new |-> last_position]>>
    /\ wpc' = "save_write"
    /\ UNCHANGED <<log_exists, log_lines, next_line, last_position, running, current_size,
                   new_content, poll, dispatched, historical>>

\* save_position, line 82: str(self.last_position) is written
SaveWrite ==
    /\ wpc = "save_write"
    /\ position_file' = <<IntText(last_position)>>
    /\ saving' = <<>>
    /\ wpc' = "sleep"
    /\ UNCHANGED <<log_exists, log_lines, next_line, last_position, running, current_size,
                   new_content, poll, dispatched, historical>>

\* the seconds the loop sleeps after a poll, and after a poll that raised
PollInterval == 30
BackoffInterval == 60

\* check_log_file, lines 89 and 116-117: what the call raises to the loop
\* for a poll that ended with the given result; the except clause catches
\* every Exception of the body and logs it, and the call returns
check_log_file_raises(result) == "none"

\* start_monitoring, lines 49-54: the sleep after check_log_file
SleepSeconds(raised) == IF raised # "none" THEN BackoffInterval ELSE PollInterval

\* the bot process dies and is started again: a new LogWatcher
WatcherCrash ==
    /\ wpc # "off"
    /\ last_position' = 0
    /\ running' = FALSE
    /\ wpc' = "off"
    /\ current_size' = 0
    /\ new_content' = <<>>
    /\ poll' = NoPoll
    /\ dispatched' = {}
    /\ historical' = <<>>
    /\ UNCHANGED <<log_exists, log_lines, next_line, position_file, saving>>

\* the game server appends a tag line to its log
ServerWrites ==
    /\ log_exists
    /\ next_line <= MaxLines
    /\ log_lines' = Append(log_lines, next_line)
    /\ next_line' = next_line + 1
    /\ UNCHANGED <<log_exists, position_file, last_position, running, wpc, current_size,
                   new_content, poll, dispatched, historical, saving>>

\* rotation moves the log away
LogRemoved ==
    /\ log_exists
    /\ log_exists' = FALSE
    /\ log_lines' = <<>>
    /\ UNCHANGED <<next_line, position_file, last_position, running, wpc, current_size,
                   new_content, poll, dispatched, historical, saving>>

\* the game server creates its log
LogCreated ==
    /\ ~log_exists
    /\ log_exists' = TRUE
    /\ log_lines' = <<>>
    /\ UNCHANGED <<next_line, position_file, last_position, running, wpc, current_size,
                   new_content, poll, dispatched, historical, saving>>

\* rotation empties the log in place
LogTruncated ==
    /\ log_exists
    /\ log_lines # <<>>
    /\ log_lines' = <<>>
    /\ UNCHANGED <<log_exists, next_line, position_file, last_position, running, wpc,
                   current_size, new_content, poll, dispatched, historical, saving>>

-----------------------------------------------------------------------------
(* LogWatcher: several start_monitoring calls and the running flag *)

\* no start_monitoring coroutine exists, no block is being processed
LoopsOff ==
    /\ loops = [k \in 1..MaxLoops |-> "none"]
    /\ cursor = 0

\* start_monitoring is called (bot.py 73 creates a task of it), lines 37-46:
\* it returns while the flag is set, else sets it and awaits load_position
LoopStart(k) ==
    /\ loops[k] \in {"none", "exited"}
    /\ loops' = [loops EXCEPT ![k] = IF running THEN "exited" ELSE "load"]
    /\ running' = TRUE

\* load_position has returned, line 49: the loop's first test
LoopLoaded(k) ==
    /\ loops[k] = "load"
    /\ loops' = [loops EXCEPT ![k] = IF running THEN "poll" ELSE "exited"]
    /\ UNCHANGED running

\* check_log_file has returned, line 51: the loop sleeps
LoopPolled(k) ==
    /\ loops[k] = "poll"
    /\ loops' = [loops EXCEPT ![k] = "sleep"]
    /\ UNCHANGED running

\* the sleep is over, line 49: the loop's test
LoopWakes(k) ==
    /\ loops[k] = "sleep"
    /\ loops' = [loops EXCEPT ![k] = IF running THEN "poll" ELSE "exited"]
    /\ UNCHANGED running

\* stop_monitoring, lines 56-59: the flag is cleared
LoopStop ==
    /\ running
    /\ running' = FALSE
    /\ UNCHANGED loops

-----------------------------------------------------------------------------
(* The ledger under events, crashes and season commands *)

\* the season numbers the admin passes while events are handled: seasons are
\* numbered in sequence, so a number in use or the next one, two seasons at most
LedgerSeasonNumbers == {n \in {1, 2} : n <= Len(seasons) + 1}

InitLedger ==
    /\ seasons = <<>>
    /\ season_courses = <<>>
    /\ course_results = <<>>
    /\ player_scores = <<>>
    /\ SyncOff
    /\ handler = Idle
    /\ reply = ""
    /\ cp_in = <<0, 0>>
    /\ cp_out = <<>>
    /\ BoardOff
    /\ LiveOff
    /\ LoopsOff
    /\ WatcherOff

notLedger == <<syncVars, reply, pointVars, tailVars, boardVars, liveVars, loopVars>>

NextLedger ==
    \/ \E content \in AddedInputs : DispatchCourseAdded(content) /\ UNCHANGED notLedger
    \/ AddSeasonCourse /\ UNCHANGED notLedger
    \/ \E content \in RemovedInputs : DispatchCourseRemoved(content) /\ UNCHANGED notLedger
    \/ RemoveSeasonCourse /\ UNCHANGED notLedger
    \/ \E payload \in ExpiredInputs : DispatchCourseExpired(payload) /\ UNCHANGED notLedger
    \/ ExpireUpdate /\ UNCHANGED notLedger
    \/ ExpireResult /\ UNCHANGED notLedger
    \/ ExpireCommit /\ UNCHANGED notLedger
    \/ HandlerReturn /\ UNCHANGED notLedger
    \/ Crash /\ UNCHANGED notLedger
    \/ Restart /\ UNCHANGED notLedger
    \/ \E n \in LedgerSeasonNumbers : CreateSeason(n) /\ UNCHANGED notLedger
    \/ \E id \in 1..Len(seasons) : EndSeason(id) /\ UNCHANGED notLedger

SpecLedger == InitLedger /\ [][NextLedger]_vars

-----------------------------------------------------------------------------
(* The season commands on their own *)

\* handle_season_start, lines 228 and 245-248: create_season and the reply
SeasonStart(season_number) ==
    /\ CreateSeason(season_number)
    /\ reply' = IF create_season(seasons, season_number).exc = "none" THEN "started"
                ELSE "error"

\* SeasonEndConfirmView.confirm_end, line 807: end_season
SeasonEnd(season_id) ==
    /\ EndSeason(season_id)
    /\ reply' = "ended"

NextSeasons ==
    \/ \E n \in 1..MaxSeasonNumber : SeasonStart(n) /\ UNCHANGED <<syncVars, pointVars, tailVars, boardVars, liveVars, loopVars>>
    \/ \E id \in 1..MaxSeasonNumber : SeasonEnd(id) /\ UNCHANGED <<syncVars, pointVars, tailVars, boardVars, liveVars, loopVars>>

SpecSeasons == InitLedger /\ [][NextSeasons]_vars

-----------------------------------------------------------------------------
(* The log watcher beside the game server *)

\* the log a first boot can find
InitialLogs == {<<>>, <<1>>, <<1, 2>>}

InitTail ==
    /\ seasons = <<>>
    /\ season_courses = <<>>
    /\ course_results = <<>>
    /\ player_scores = <<>>
    /\ SyncOff
    /\ handler = Idle
    /\ reply = ""
    /\ cp_in = <<0, 0>>
    /\ cp_out = <<>>
    /\ BoardOff
    /\ LiveOff
    /\ LoopsOff
    /\ log_exists \in BOOLEAN
    /\ log_lines \in (IF log_exists THEN InitialLogs ELSE {<<>>})
    /\ next_line = Len(log_lines) + 1
    /\ position_file = <<>>
    /\ last_position = 0
    /\ running = FALSE
    /\ wpc = "off"
    /\ current_size = 0
    /\ new_content = <<>>
    /\ poll = NoPoll
    /\ dispatched = {}
    /\ historical = <<>>
    /\ saving = <<>>

notTail == <<ledgerVars, syncVars, pointVars, boardVars, liveVars, loopVars>>

NextTail ==
    \/ StartMonitoring /\ UNCHANGED notTail
    \/ StopMonitoring /\ UNCHANGED notTail
    \/ LoopTest /\ UNCHANGED notTail
    \/ CheckStat /\ UNCHANGED notTail
    \/ CheckRead /\ UNCHANGED notTail
    \/ ProcessNewContent /\ UNCHANGED notTail
    \/ SaveOpen /\ UNCHANGED notTail
    \/ SaveWrite /\ UNCHANGED notTail
    \/ WatcherCrash /\ UNCHANGED notTail
    \/ ServerWrites /\ UNCHANGED notTail
    \/ LogRemoved /\ UNCHANGED notTail
    \/ LogCreated /\ UNCHANGED notTail
    \/ LogTruncated /\ UNCHANGED notTail

SpecTail == InitTail /\ [][NextTail]_vars

-----------------------------------------------------------------------------
(* The message manager beside the channel's moderators *)

\* the slots an operator has enabled
ToggleChoices ==
    { [t \in SlotTypes |-> TRUE],
      [t \in SlotTypes |-> t # "season_summary"],
      [t \in SlotTypes |-> t = "course_grid"] }

InitSync ==
    /\ seasons = create_season(<<>>, 1).table
    /\ season_courses = <<>>
    /\ course_results = <<>>
    /\ player_scores = <<>>
    /\ handler = Idle
    /\ reply = ""
    /\ cp_in = <<0, 0>>
    /\ cp_out = <<>>
    /\ BoardOff
    /\ LiveOff
    /\ LoopsOff
    /\ WatcherOff
    /\ bot_messages = <<>>
    /\ remote = {}
    /\ next_message_id = 1
    /\ toggles \in ToggleChoices
    /\ sync = NoSync
    /\ passes = [t \in SlotTypes |-> NoPass]
    /\ expect = [t \in SlotTypes |-> 0]

notSync == <<ledgerVars, pointVars, tailVars, boardVars, liveVars, loopVars>>

NextSync ==
    \/ UpdateAllMessages /\ UNCHANGED notSync
    \/ CreateEmbed /\ UNCHANGED notSync
    \/ CreateEmbedFails /\ UNCHANGED notSync
    \/ FetchMessage /\ UNCHANGED notSync
    \/ FetchFails /\ UNCHANGED notSync
    \/ DeleteMessageId /\ UNCHANGED notSync
    \/ EditMessage /\ UNCHANGED notSync
    \/ SendMessage /\ UNCHANGED notSync
    \/ StoreMessageId /\ UNCHANGED notSync
    \/ \E id \in 1..MaxMessages : ExternalDelete(id) /\ UNCHANGED notSync

SpecSync == InitSync /\ [][NextSync]_vars

-----------------------------------------------------------------------------
(* The leaderboard query over seasons of every size *)

\* ranks of the result rows: 30, 20 and 0 points
BoardRanks == <<31, 3, 1>>

RECURSIVE Repeat(_, _)
Repeat(x, n) == IF n = 0 THEN <<>> ELSE <<x>> \o Repeat(x, n - 1)

RECURSIVE Flatten(_)
Flatten(ss) == IF ss = <<>> THEN <<>> ELSE Head(ss) \o Flatten(Tail(ss))

\* a season's courses c1 .. cn
BoardCourses(n) == [i \in 1..n |-> CourseRow(1, <<"c">> \o IntText(i), 1)]

\* result rows of season 1: bob's rank-1 rows, then alice's rows, the lowest
\* points first
BoardResults(alice, bob) ==
    LET a == Flatten([j \in 1..Len(BoardRanks) |-> Repeat(BoardRanks[j], alice[j])])
        b == Repeat(1, bob)
        ranks == [k \in 1..(Len(a) + Len(b)) |-> IF k <= Len(b) THEN b[k] ELSE a[k - Len(b)]]
    IN [k \in 1..Len(ranks) |->
          ResultRow(1, <<"c">> \o IntText(k), Entry(ranks[k], IF k <= Len(b) THEN "bob" ELSE "alice"),
                    calculate_points(ranks[k]).value)]

InitBoard ==
    /\ seasons = create_season(<<>>, 1).table
    /\ \E n \in 0..MaxCourses : season_courses = BoardCourses(n)
    /\ \E alice \in [1..Len(BoardRanks) -> 0..MaxSame], bob \in 0..2 :
          course_results = BoardResults(alice, bob)
    /\ player_scores = <<>>
    /\ handler = Idle
    /\ reply = ""
    /\ cp_in = <<0, 0>>
    /\ cp_out = <<>>
    /\ BoardOff
    /\ LiveOff
    /\ LoopsOff
    /\ SyncOff
    /\ WatcherOff

notBoard == <<ledgerVars, syncVars, pointVars, tailVars, liveVars, loopVars>>

NextBoard ==
    \/ \E t \in {"min", "best"}, n \in -1..MaxSetting : ConfigScoring(t, n) /\ UNCHANGED notBoard
    \/ GetSeasonLeaderboard /\ UNCHANGED notBoard

SpecBoard == InitBoard /\ [][NextBoard]_vars

-----------------------------------------------------------------------------
(* Live updates: the loop's task with start, stop and force_update *)

LiveToggles == { [t \in SlotTypes |-> t = "course_grid"] }

InitLive ==
    /\ seasons = create_season(<<>>, 1).table
    /\ season_courses = <<>>
    /\ course_results = <<>>
    /\ player_scores = <<>>
    /\ handler = Idle
    /\ reply = ""
    /\ cp_in = <<0, 0>>
    /\ cp_out = <<>>
    /\ BoardOff
    /\ LiveOff
    /\ LoopsOff
    /\ WatcherOff
    /\ bot_messages = <<>>
    /\ remote = {}
    /\ next_message_id = 1
    /\ toggles \in LiveToggles
    /\ sync = NoSync
    /\ passes = [t \in SlotTypes |-> NoPass]
    /\ expect = [t \in SlotTypes |-> 0]

notLive == <<ledgerVars, pointVars, tailVars, boardVars, loopVars, sync, passes, expect>>

\* the admin turns the live messages on and off; nobody asks for an update
NextLive ==
    \/ StartCall /\ UNCHANGED notLive
    \/ StopLiveUpdates /\ UNCHANGED notLive
    \/ StopLiveUpdatesReturns /\ UNCHANGED notLive
    \/ \E k \in Tasks : UpdateLoopTest(k) /\ UNCHANGED notLive
    \/ \E k \in Tasks, fails \in BOOLEAN : UpdateLoopStep(k, fails) /\ UNCHANGED notLive
    \/ \E k \in Tasks : UpdateLoopSleep(k) /\ UNCHANGED notLive
    \/ \E k \in Tasks : UpdateLoopCancelled(k) /\ UNCHANGED notLive
    \/ \E id \in 1..MaxLiveMessages : ExternalDelete(id)
          /\ UNCHANGED <<ledgerVars, pointVars, tailVars, boardVars, liveVars, loopVars>>

SpecLive == InitLive /\ [][NextLive]_vars

\* the live messages stay on; an admin asks for updates in between
NextForce ==
    \/ StartCall /\ UNCHANGED notLive
    \/ \E k \in Tasks : UpdateLoopTest(k) /\ UNCHANGED notLive
    \/ \E k \in Tasks, fails \in BOOLEAN : UpdateLoopStep(k, fails) /\ UNCHANGED notLive
    \/ \E k \in Tasks : UpdateLoopSleep(k) /\ UNCHANGED notLive
    \/ ForceUpdate /\ UNCHANGED notLive
    \/ \E fails \in BOOLEAN : ForceUpdateStep(fails) /\ UNCHANGED notLive
    \/ \E id \in 1..MaxLiveMessages : ExternalDelete(id)
          /\ UNCHANGED <<ledgerVars, pointVars, tailVars, boardVars, liveVars, loopVars>>

SpecForce == InitLive /\ [][NextForce]_vars

-----------------------------------------------------------------------------
(* Events after a season has ended *)

\* season 1 with the course "a(x)", expired with alice on rank 1, then ended:
\* what create_season, add_season_course, expire_course and end_season leave
ArchivedName == <<"a", "(", "x", ")">>
ArchivedEvent ==
    [event |-> "secret_course_expired", coursename |-> ArchivedName,
     standings |-> <<Entry(1, "alice")>>]
ArchivedSeasons == end_season(create_season(<<>>, 1).table, 1)
ArchivedTables ==
    ExpireEntry([courses |-> MarkExpired(add_season_course(<<>>, 1, ArchivedName, 1), 1,
                                         ArchivedName, ArchivedEvent),
                 results |-> <<>>, scores |-> <<>>],
                1, CourseNameOf(ArchivedName), Entry(1, "alice")).tx

\* what the handlers log when they drop an event for want of an active
\* season: log_watcher.py 176 and 199, db_manager.py 231
EventLog(parsed) ==
    reply' = IF parsed /\ get_active_season(seasons) = 0 THEN "No active season" ELSE ""

InitArchive ==
    /\ seasons \in {ArchivedSeasons, create_season(ArchivedSeasons, 2).table}
    /\ season_courses = ArchivedTables.courses
    /\ course_results = ArchivedTables.results
    /\ player_scores = ArchivedTables.scores
    /\ SyncOff
    /\ handler = Idle
    /\ reply = ""
    /\ cp_in = <<0, 0>>
    /\ cp_out = <<>>
    /\ BoardOff
    /\ LiveOff
    /\ LoopsOff
    /\ WatcherOff

notArchive == <<syncVars, pointVars, tailVars, boardVars, liveVars, loopVars>>

NextArchive ==
    \/ \E content \in AddedInputs :
          DispatchCourseAdded(content) /\ EventLog(ParseCourseAdded(content).ok)
          /\ UNCHANGED notArchive
    \/ AddSeasonCourse /\ UNCHANGED <<notArchive, reply>>
    \/ \E content \in RemovedInputs :
          DispatchCourseRemoved(content) /\ EventLog(TRUE) /\ UNCHANGED notArchive
    \/ RemoveSeasonCourse /\ UNCHANGED <<notArchive, reply>>
    \/ \E payload \in ExpiredInputs :
          DispatchCourseExpired(payload) /\ EventLog(ParseCourseExpired(payload).ok)
          /\ UNCHANGED notArchive
    \/ ExpireUpdate /\ UNCHANGED <<notArchive, reply>>
    \/ ExpireResult /\ UNCHANGED <<notArchive, reply>>
    \/ ExpireCommit /\ UNCHANGED <<notArchive, reply>>
    \/ HandlerReturn /\ UNCHANGED <<notArchive, reply>>
    \/ \E n \in 2..MaxSeasonNumber : CreateSeason(n) /\ UNCHANGED <<notArchive, reply>>

SpecArchive == InitArchive /\ [][NextArchive]_vars

-----------------------------------------------------------------------------
(* A tailed block of tag lines, handed line by line to the handlers *)

\* a line of the log: its number in the file, the prefix after 'SCLOG]' and
\* the text after the prefix (for an expiry tag the JSON it holds)
TagLine(n, kind, text, json) == [n |-> n, kind |-> kind, text |-> text, json |-> json]
NoJson == [decodes |-> FALSE, obj |-> [event |-> ""]]

\* COURSE_ADDED with one segment, with a timestamp that is no integer, with
\* three segments; JSON that does not decode, JSON without coursename; a
\* prefix process_sclog_event does not know
MalformedTags ==
    {[kind |-> "added", text |-> t, json |-> NoJson] : t \in AddedMalformed}
    \cup {[kind |-> "expired", text |-> <<>>, json |-> p] :
            p \in {q \in ExpiredMalformed : q.obj.event = "secret_course_expired"}}
    \cup {[kind |-> "other", text |-> <<>>, json |-> NoJson]}

WellFormedTags ==
    { [kind |-> "added", text |-> <<" ", "c", " ", "|", " ", "1">>, json |-> NoJson],
      [kind |-> "removed", text |-> <<" ", "c">>, json |-> NoJson],
      [kind |-> "expired", text |-> <<>>,
       json |-> [decodes |-> TRUE,
                 obj |-> [event |-> "secret_course_expired", coursename |-> <<"c">>,
                          standings |-> <<Entry(1, "alice")>>]]] }

BlockTags == MalformedTags \cup WellFormedTags

\* the game server appends a tag line to its log
ServerWritesTag(tag) ==
    /\ log_exists
    /\ next_line <= MaxBlock
    /\ log_lines' = Append(log_lines, TagLine(next_line, tag.kind, tag.text, tag.json))
    /\ next_line' = next_line + 1
    /\ UNCHANGED <<log_exists, position_file, last_position, running, wpc, current_size,
                   new_content, poll, dispatched, historical, saving>>

\* the mutant: the lines of the block are taken last to first
ProcessLine_m ==
    /\ wpc = "process"
    /\ handler.pc = "idle"
    /\ cursor < Len(new_content)
    /\ cursor' = cursor + 1
    /\ LET line == new_content[Len(new_content) - cursor] IN
       /\ dispatched' = dispatched \cup {line}
       /\ IF line.kind = "added" THEN DispatchCourseAdded(line.text)
          ELSE IF line.kind = "removed" THEN DispatchCourseRemoved(line.text)
          ELSE IF line.kind = "expired" THEN DispatchCourseExpired(line.json)
          ELSE UNCHANGED <<handler, seasons, season_courses, course_results, player_scores>>
    /\ UNCHANGED <<log_exists, log_lines, next_line, position_file, last_position, running,
                   wpc, current_size, new_content, poll, historical, saving>>

\* process_new_content, lines 121-127, and process_sclog_event, lines 136-156:
\* the next line of the block goes to the handler of its prefix, which is
\* awaited before the loop goes on; an unknown prefix is logged
ProcessLine ==
    /\ wpc = "process"
    /\ handler.pc = "idle"
    /\ cursor < Len(new_content)
    /\ cursor' = cursor + 1
    /\ LET line == new_content[cursor + 1] IN
       /\ dispatched' = dispatched \cup {line}
       /\ IF line.kind = "added" THEN DispatchCourseAdded(line.text)
          ELSE IF line.kind = "removed" THEN DispatchCourseRemoved(line.text)
          ELSE IF line.kind = "expired" THEN DispatchCourseExpired(line.json)
          ELSE UNCHANGED <<handler, seasons, season_courses, course_results, player_scores>>
    /\ UNCHANGED <<log_exists, log_lines, next_line, position_file, last_position, running,
                   wpc, current_size, new_content, poll, historical, saving>>

\* process_new_content returns after the last line, check_log_file goes on
\* to save_position (line 114)
ProcessDone ==
    /\ wpc = "process"
    /\ handler.pc = "idle"
    /\ cursor = Len(new_content)
    /\ cursor' = 0
    /\ wpc' = "save_open"
    /\ UNCHANGED <<log_exists, log_lines, next_line, position_file, last_position, running,
                   current_size, new_content, poll, dispatched, historical, saving>>

InitBlock ==
    /\ seasons = create_season(<<>>, 1).table
    /\ season_courses = <<>>
    /\ course_results = <<>>
    /\ player_scores = <<>>
    /\ SyncOff
    /\ handler = Idle
    /\ reply = ""
    /\ cp_in = <<0, 0>>
    /\ cp_out = <<>>
    /\ BoardOff
    /\ LiveOff
    /\ LoopsOff
    /\ log_exists = TRUE
    /\ log_lines = <<>>
    /\ next_line = 1
    /\ position_file = <<>>
    /\ last_position = 0
    /\ running = FALSE
    /\ wpc = "off"
    /\ current_size = 0
    /\ new_content = <<>>
    /\ poll = NoPoll
    /\ dispatched = {}
    /\ historical = <<>>
    /\ saving = <<>>

ledgerTables == <<seasons, season_courses, course_results, player_scores>>
notBlock == <<syncVars, pointVars, boardVars, liveVars, loops, reply>>

NextBlock ==
    \/ StartMonitoring /\ UNCHANGED <<notBlock, cursor, handler, ledgerTables>>
    \/ LoopTest /\ UNCHANGED <<notBlock, cursor, handler, ledgerTables>>
    \/ CheckStat /\ UNCHANGED <<notBlock, cursor, handler, ledgerTables>>
    \/ CheckRead /\ UNCHANGED <<notBlock, cursor, handler, ledgerTables>>
    \/ ProcessLine /\ UNCHANGED notBlock
    \/ AddSeasonCourse /\ UNCHANGED <<notBlock, cursor, tailVars>>
    \/ RemoveSeasonCourse /\ UNCHANGED <<notBlock, cursor, tailVars>>
    \/ ExpireUpdate /\ UNCHANGED <<notBlock, cursor, tailVars>>
    \/ ExpireResult /\ UNCHANGED <<notBlock, cursor, tailVars>>
    \/ ExpireCommit /\ UNCHANGED <<notBlock, cursor, tailVars>>
    \/ HandlerReturn /\ UNCHANGED <<notBlock, cursor, tailVars>>
    \/ ProcessDone /\ UNCHANGED <<notBlock, handler, ledgerTables>>
    \/ SaveOpen /\ UNCHANGED <<notBlock, cursor, handler, ledgerTables>>
    \/ SaveWrite /\ UNCHANGED <<notBlock, cursor, handler, ledgerTables>>
    \/ \E tag \in BlockTags :
          ServerWritesTag(tag) /\ UNCHANGED <<notBlock, cursor, handler, ledgerTables>>

SpecBlock == InitBlock /\ [][NextBlock]_vars

-----------------------------------------------------------------------------
(* start_monitoring and stop_monitoring called at any moment *)

InitLoops ==
    /\ seasons = <<>>
    /\ season_courses = <<>>
    /\ course_results = <<>>
    /\ player_scores = <<>>
    /\ SyncOff
    /\ handler = Idle
    /\ reply = ""
    /\ cp_in = <<0, 0>>
    /\ cp_out = <<>>
    /\ BoardOff
    /\ LiveOff
    /\ LoopsOff
    /\ WatcherOff

notLoops == <<ledgerVars, syncVars, pointVars, boardVars, liveVars, log_exists, log_lines,
              next_line, position_file, last_position, wpc, current_size, new_content, poll,
              dispatched, historical, saving, cursor>>

NextLoops ==
    \/ \E k \in 1..MaxLoops : LoopStart(k) /\ UNCHANGED notLoops
    \/ \E k \in 1..MaxLoops : LoopLoaded(k) /\ UNCHANGED notLoops
    \/ \E k \in 1..MaxLoops : LoopPolled(k) /\ UNCHANGED notLoops
    \/ \E k \in 1..MaxLoops : LoopWakes(k) /\ UNCHANGED notLoops
    \/ LoopStop /\ UNCHANGED notLoops

SpecLoops == InitLoops /\ [][NextLoops]_vars

-----------------------------------------------------------------------------
(* The two loops under failures, with the scheduling of the event loop *)

\* the tags the server writes here: an expiry event whose JSON does not
\* decode, one whose second standing entry makes expire_course raise (rank 0
\* is no key of points_map), and a well-formed COURSE_REMOVED
RetryTags ==
    { [kind |-> "expired", text |-> <<>>,
       json |-> [decodes |-> FALSE, obj |-> [event |-> "secret_course_expired"]]],
      [kind |-> "expired", text |-> <<>>,
       json |-> [decodes |-> TRUE,
                 obj |-> [event |-> "secret_course_expired", coursename |-> <<"c">>,
                          standings |-> <<Entry(1, "bob"), Entry(0, "alice")>>]]],
      [kind |-> "removed", text |-> <<" ", "c">>, json |-> NoJson] }

InitRetry ==
    /\ seasons = create_season(<<>>, 1).table
    /\ season_courses = <<>>
    /\ course_results = <<>>
    /\ player_scores = <<>>
    /\ handler = Idle
    /\ reply = ""
    /\ cp_in = <<0, 0>>
    /\ cp_out = <<>>
    /\ BoardOff
    /\ LiveOff
    /\ LoopsOff
    /\ bot_messages = <<>>
    /\ remote = {}
    /\ next_message_id = 1
    /\ toggles \in LiveToggles
    /\ sync = NoSync
    /\ passes = [t \in SlotTypes |-> NoPass]
    /\ expect = [t \in SlotTypes |-> 0]
    /\ log_exists \in BOOLEAN
    /\ log_lines = <<>>
    /\ next_line = 1
    /\ position_file = <<>>
    /\ last_position = 0
    /\ running = FALSE
    /\ wpc = "off"
    /\ current_size = 0
    /\ new_content = <<>>
    /\ poll = NoPoll
    /\ dispatched = {}
    /\ historical = <<>>
    /\ saving = <<>>

notWatcher == <<syncVars, pointVars, boardVars, liveVars, loops, reply>>

\* a step of the start_monitoring coroutine: the await it is suspended at
\* completes, or its sleep ends
MonitoringStep ==
    \/ LoopTest /\ UNCHANGED <<notWatcher, cursor, handler, ledgerTables>>
    \/ CheckStat /\ UNCHANGED <<notWatcher, cursor, handler, ledgerTables>>
    \/ CheckRead /\ UNCHANGED <<notWatcher, cursor, handler, ledgerTables>>
    \/ ProcessLine /\ UNCHANGED notWatcher
    \/ RemoveSeasonCourse /\ UNCHANGED <<notWatcher, cursor, tailVars>>
    \/ ExpireUpdate /\ UNCHANGED <<notWatcher, cursor, tailVars>>
    \/ ExpireResult /\ UNCHANGED <<notWatcher, cursor, tailVars>>
    \/ HandlerReturn /\ UNCHANGED <<notWatcher, cursor, tailVars>>
    \/ ProcessDone /\ UNCHANGED <<notWatcher, handler, ledgerTables>>
    \/ SaveOpen /\ UNCHANGED <<notWatcher, cursor, handler, ledgerTables>>
    \/ SaveWrite /\ UNCHANGED <<notWatcher, cursor, handler, ledgerTables>>

\* a step of the _update_loop task; a fetch fails, and a message is deleted
\* in the channel, only while the channel has an id left for the message
\* that is sent instead
UpdateStep ==
    \/ \E k \in Tasks : UpdateLoopTest(k) /\ UNCHANGED notLive
    \/ \E k \in Tasks, fails \in BOOLEAN :
          /\ fails => next_message_id <= MaxLiveMessages
          /\ UpdateLoopStep(k, fails)
          /\ UNCHANGED notLive
    \/ \E k \in Tasks : UpdateLoopSleep(k) /\ UNCHANGED notLive

\* on_ready starts the loops (bot.py 69 and 73), each of which is followed on
\* its own: the loops share no variable
NextRetry ==
    \/ ~live_running /\ StartMonitoring /\ UNCHANGED <<notWatcher, cursor, handler, ledgerTables>>
    \/ MonitoringStep
    \/ \E tag \in RetryTags :
          ServerWritesTag(tag) /\ UNCHANGED <<notWatcher, cursor, handler, ledgerTables>>
    \/ LogRemoved /\ UNCHANGED <<notWatcher, cursor, handler, ledgerTables>>
    \/ LogCreated /\ UNCHANGED <<notWatcher, cursor, handler, ledgerTables>>
    \/ ~running /\ StartCall /\ UNCHANGED notLive
    \/ UpdateStep
    \/ \E id \in 1..MaxLiveMessages :
          /\ next_message_id <= MaxLiveMessages
          /\ ExternalDelete(id)
          /\ UNCHANGED <<ledgerVars, pointVars, tailVars, boardVars, liveVars, loopVars>>

\* asyncio runs every coroutine whose await has completed, and every sleep
\* ends: a loop that can take a step takes it
SpecRetry ==
    InitRetry /\ [][NextRetry]_vars /\ WF_vars(MonitoringStep) /\ WF_vars(UpdateStep)

-----------------------------------------------------------------------------
(* calculate_points applied to pairs of ranks *)

InitPoints ==
    /\ seasons = <<>>
    /\ season_courses = <<>>
    /\ course_results = <<>>
    /\ player_scores = <<>>
    /\ SyncOff
    /\ handler = Idle
    /\ reply = ""
    /\ cp_in \in (0..MaxRank) \X (0..MaxRank)
    /\ cp_out = <<>>
    /\ BoardOff
    /\ LiveOff
    /\ LoopsOff
    /\ WatcherOff

CalculatePoints ==
    /\ cp_out = <<>>
    /\ cp_out' = <<calculate_points(cp_in[1]), calculate_points(cp_in[2])>>
    /\ UNCHANGED cp_in

NextRanks ==
    /\ cp_out # <<>>
    /\ cp_in' \in (0..MaxRank) \X (0..MaxRank)
    /\ cp_out' = <<>>

NextPoints ==
    \/ CalculatePoints /\ UNCHANGED <<ledgerVars, syncVars, tailVars, boardVars, liveVars, loopVars>>
    \/ NextRanks /\ UNCHANGED <<ledgerVars, syncVars, tailVars, boardVars, liveVars, loopVars>>

SpecPoints == InitPoints /\ [][NextPoints]_vars

-----------------------------------------------------------------------------
(* Claims about the ledger *)

ResultPoints(season_id, player) ==
    SumSeq([k \in 1..Len(course_results) |->
              IF course_results[k].season_id = season_id
                 /\ course_results[k].player_name = player
              THEN course_results[k].points ELSE 0])

ResultCount(season_id, player) ==
    Cardinality({k \in 1..Len(course_results) :
                    course_results[k].season_id = season_id
                    /\ course_results[k].player_name = player})

\* C1: in every state of the database, for every (season, player), the
\* accumulator's total_points is the sum of the points of the player's
\* course_results rows of that season and courses_completed is their number
\* (an absent accumulator counting as 0 and 0), and no (season, player) has
\* two accumulator rows.
C1_AccumulatorsMatchResults ==
    /\ \A s \in 1..Len(seasons), p \in Players :
          /\ ScoreOf(player_scores, s, p).total_points = ResultPoints(s, p)
          /\ ScoreOf(player_scores, s, p).courses_completed = ResultCount(s, p)
    /\ \A i, j \in 1..Len(player_scores) :
          (player_scores[i].season_id = player_scores[j].season_id
           /\ player_scores[i].player_name = player_scores[j].player_name) => i = j
    /\ \A k \in 1..Len(course_results) : course_results[k].season_id \in 1..Len(seasons)

\* C1's case: an expiry event has just failed, after a player's accumulator
\* was added to by a second committed result
C1_Witness ==
    /\ handler.pc = "expire_raised"
    /\ \E i \in 1..Len(player_scores) : player_scores[i].courses_completed = 2

\* C6: an expiry event is all or nothing. While its transaction is open,
\* after it failed on a standing entry, and after a crash before the commit,
\* the tables are those from before the event; after the commit they are the
\* whole event: the flag and snapshot, every result row, every accumulator
\* update.
C6_ExpireAllOrNothing ==
    /\ handler.pc \in {"expire_loop", "expire_raised"} => Tables = handler.pre[1]
    /\ handler.pc = "expire_done" =>
          IsWholeEvent(Tables, handler.pre[1], handler.season, handler.name, handler.data[1])
    /\ (handler.pc = "crashed" /\ handler.data # <<>> /\ handler.pre # <<>>) =>
          \/ Tables = handler.pre[1]
          \/ IsWholeEvent(Tables, handler.pre[1], handler.season, handler.name,
                          handler.data[1])

\* C6's case: the second standing entry of an event raised after the first
\* entry's row and accumulator update had been executed
C6_Witness ==
    /\ handler.pc = "expire_raised"
    /\ handler.i = 2
    /\ \E i \in 1..Len(handler.pre[1].courses) :
          /\ handler.pre[1].courses[i].full_course_name = handler.name
          /\ handler.pre[1].courses[i].season_id = handler.season

\* C7: course_results holds at most one row per (season, course, player).
C7_OneResultPerCoursePlayer ==
    \A i, j \in 1..Len(course_results) :
        (/\ course_results[i].season_id = course_results[j].season_id
         /\ course_results[i].course_name = course_results[j].course_name
         /\ course_results[i].player_name = course_results[j].player_name) => i = j

\* C8: at most one season is active.
C8_AtMostOneActiveSeason ==
    Cardinality({i \in 1..Len(seasons) : seasons[i].is_active}) <= 1

\* C8's case: a create_season call has just failed on a number in use, with
\* several seasons in the table, one of them active
C8_Witness ==
    /\ reply = "error"
    /\ Len(seasons) >= 2
    /\ \E i \in 1..Len(seasons) : seasons[i].is_active

\* C9: for ranks r, s >= 0 (0 included) calculate_points returns an integer,
\* r <= s implies points(r) >= points(s), and points(r) = 0 for r > 30.
C9_PointsTotalMonotone ==
    cp_out # <<>> =>
        /\ cp_out[1].exc = "none" /\ cp_out[2].exc = "none"
        /\ cp_in[1] <= cp_in[2] => cp_out[1].value >= cp_out[2].value
        /\ cp_in[1] > 30 => cp_out[1].value = 0

CoursesNamed(courses, full) ==
    {i \in 1..Len(courses) : courses[i].full_course_name = full}

\* C10: season_courses never holds two rows with one full course name, and
\* when add_season_course has run exactly one row holds the name added.
C10_OneRowPerFullName ==
    /\ \A i \in 1..Len(season_courses) :
          Cardinality(CoursesNamed(season_courses, season_courses[i].full_course_name)) = 1
    /\ handler.pc = "add_done" =>
          Cardinality(CoursesNamed(season_courses, handler.name)) = 1

\* C10's case: the second COURSE_ADDED for a name, in the same active season
C10_Witness ==
    /\ handler.pc = "add_done"
    /\ \E i \in 1..Len(handler.pre[1].courses) :
          /\ handler.pre[1].courses[i].full_course_name = handler.name
          /\ handler.pre[1].courses[i].season_id = handler.season
    /\ Cardinality(CoursesNamed(season_courses, handler.name)) = 1

\* the scale of the specification: 30, 25, 20, 18, ... for ranks 1 to 10, then
\* 4, 3, 2, 1 for each further five ranks, 0 beyond rank 30
ScalePoints(r) ==
    IF r \in 1..10 THEN <<30, 25, 20, 18, 16, 14, 12, 10, 8, 6>>[r]
    ELSE IF r <= 15 THEN 4 ELSE IF r <= 20 THEN 3 ELSE IF r <= 25 THEN 2
    ELSE IF r <= 30 THEN 1 ELSE 0

\* a standing entry as the game server writes it: a finishing rank and a username
IsStanding(e) == "username" \in DOMAIN e /\ e.rank >= 1

InSeason(courses, season_id, full) ==
    \E i \in 1..Len(courses) :
        courses[i].full_course_name = full /\ courses[i].season_id = season_id

\* C13: an expiry event for a course of the active season whose standing
\* entries are (rank, username) pairs is carried out, and then each entry has
\* yielded one course_results row with the entry's player, rank and
\* points(rank), and each player's accumulator has grown by the points of the
\* player's entries and by their number (rank 1: 30 points, 1 course).
C13_ExpiryYieldsResults ==
    LET st == StandingsOf(handler.data[1])
        pre == handler.pre[1]
        course == InSeason(pre.courses, handler.season, handler.name)
    IN /\ (handler.pc = "expire_raised" /\ course) => \E k \in 1..Len(st) : ~IsStanding(st[k])
       /\ (handler.pc = "expire_done" /\ course) =>
             /\ Len(course_results) = Len(pre.results) + Len(st)
             /\ \A k \in 1..Len(st) :
                   LET row == course_results[Len(pre.results) + k] IN
                   /\ row.season_id = handler.season
                   /\ row.player_name = st[k].username
                   /\ row.position = st[k].rank
                   /\ row.points = ScalePoints(st[k].rank)
             /\ \A p \in Players :
                   LET mine == {k \in 1..Len(st) : st[k].username = p} IN
                   /\ ScoreOf(player_scores, handler.season, p).total_points =
                         ScoreOf(pre.scores, handler.season, p).total_points
                         + SumSeq([k \in 1..Len(st) |->
                                     IF k \in mine THEN ScalePoints(st[k].rank) ELSE 0])
                   /\ ScoreOf(player_scores, handler.season, p).courses_completed =
                         ScoreOf(pre.scores, handler.season, p).courses_completed
                         + Cardinality(mine)

\* the expiry of a course of the season with alice on rank 1, for a player
\* who had points before
C13_Witness ==
    /\ handler.pc = "expire_done"
    /\ InSeason(handler.pre[1].courses, handler.season, handler.name)
    /\ StandingsOf(handler.data[1]) = <<Entry(1, "alice")>>
    /\ course_results[Len(course_results)].points = 30
    /\ ScoreOf(handler.pre[1].scores, handler.season, "alice").courses_completed = 1
    /\ ScoreOf(player_scores, handler.season, "alice").total_points =
          ScoreOf(handler.pre[1].scores, handler.season, "alice").total_points + 30

\* the text between the first '(' and the ')' that follows it; the whole
\* name when it has no '('
InsideParens(full) ==
    IF ~Contains(full, "(") THEN full
    ELSE LET i == CHOOSE k \in 1..Len(full) : full[k] = "(" /\ \A h \in 1..(k - 1) : full[h] # "("
             closing == {k \in (i + 1)..Len(full) : full[k] = ")"}
             j == IF closing = {} THEN Len(full) + 1
                  ELSE CHOOSE k \in closing : \A h \in closing : k <= h
         IN SubSeq(full, i + 1, j - 1)

\* the payload of the tag 'COURSE_ADDED: <full_name> | <ts>'
AddedTag(full, ts) == <<" ">> \o full \o <<" ", "|", " ">> \o TsText(ts)

\* C14: a well-formed COURSE_ADDED tag '<full_name> | <ts>' is parsed into that
\* name and timestamp, and once it has been processed in an active season,
\* season_courses holds one row with that full name: in that season, with
\* secret_until = ts, expired = FALSE and the display name taken from inside
\* the first parenthesis pair (the full name when there is none).
C14_CourseAddedRow ==
    handler.pc = "add_done" =>
          /\ \E full \in FullNames, ts \in 1..MaxTs :
                /\ handler.name = full /\ handler.ts = ts
                /\ LET p == ParseCourseAdded(AddedTag(full, ts)) IN
                   p.ok /\ p.name = full /\ p.ts = ts
          /\ \E i \in 1..Len(season_courses) :
                /\ season_courses[i].full_course_name = handler.name
                /\ season_courses[i].season_id = handler.season
                /\ season_courses[i].secret_until = handler.ts
                /\ season_courses[i].expired = FALSE
                /\ season_courses[i].course_name = InsideParens(handler.name)

\* a tag for a name with a parenthesis pair was processed; the course had
\* expired under that name before
C14_Witness ==
    /\ handler.pc = "add_done"
    /\ Contains(handler.name, "(")
    /\ \E i \in 1..Len(handler.pre[1].courses) :
          /\ handler.pre[1].courses[i].full_course_name = handler.name
          /\ handler.pre[1].courses[i].expired
    /\ \E i \in 1..Len(season_courses) :
          /\ season_courses[i].course_name = <<"x">>
          /\ ~season_courses[i].expired

-----------------------------------------------------------------------------
(* Claims about the log watcher *)

\* C4 as stated: whenever a poll has observed a size below last_position, it
\* returns the entire content of the file and ends with last_position equal to
\* the observed size.
C4_RotationEndsAtObservedSize ==
    (poll.rotated /\ poll.result # "") =>
        /\ poll.result \in {"nochange", "read"}
        /\ poll.result = "read" => poll.whole
        /\ last_position = current_size

\* C4, amended: a poll that has observed a size below last_position resets
\* last_position to 0; when the file can then be opened and read, it returns
\* the entire content of the file and ends with last_position equal to the
\* observed size; when the open fails (the file is gone since the size was
\* taken) it returns nothing and ends with last_position 0.
C4_RotationResets ==
    /\ (poll.rotated /\ poll.result = "") => (wpc = "read" /\ last_position = 0)
    /\ (poll.rotated /\ poll.result # "") =>
          IF poll.result = "error"
          THEN last_position = 0 /\ new_content = <<>>
          ELSE /\ poll.result \in {"nochange", "read"}
               /\ poll.result = "read" => poll.whole
               /\ last_position = current_size

\* a poll saw the log shrink, read it whole and dispatched it
C4_Witness ==
    /\ poll.rotated
    /\ poll.result = "read"
    /\ wpc = "sleep"
    /\ current_size >= 1
    /\ Range(new_content) \subseteq dispatched

-----------------------------------------------------------------------------
(* Claims about the message manager *)

MappingsOf(t, season_id) ==
    {i \in 1..Len(bot_messages) :
        bot_messages[i].message_type = t /\ bot_messages[i].season_id = season_id}

\* C2: after any sequence of update_all_messages calls, one at a time, with
\* messages deleted in the channel in between, bot_messages holds at most one
\* mapping per (slot, season): a stale mapping is never left beside a new one.
C2_OneMappingPerSlot ==
    \A t \in SlotTypes : \A season_id \in 1..Len(seasons) :
        Cardinality(MappingsOf(t, season_id)) <= 1

\* C3: a call that has handled a slot whose stored message no longer existed
\* has deleted the stale mapping, sent exactly one new message and stored its
\* id as the slot's only mapping; the next call, when nobody deleted that
\* message, has edited it and sent none.
C3_OneRecreationPerDeletion ==
    \A t \in SlotTypes :
        passes[t].done =>
            /\ passes[t].gone =>
                  /\ passes[t].deleted
                  /\ passes[t].sent = 1
                  /\ \A season_id \in 1..Len(seasons) :
                        /\ MappingsOf(t, season_id) # {}
                        /\ \A i \in MappingsOf(t, season_id) :
                              bot_messages[i].message_id = passes[t].new
            /\ expect[t] # 0 => (passes[t].edited = expect[t] /\ passes[t].sent = 0)

-----------------------------------------------------------------------------
(* Claims about the leaderboard *)

\* round(x / 10) as Python rounds: to the nearest integer, a half to the even one
RoundTenths(x) ==
    LET q == x \div 10
        r == x % 10
    IN IF r < 5 THEN q ELSE IF r > 5 THEN q + 1 ELSE IF q % 2 = 0 THEN q ELSE q + 1

\* the largest sum of n elements of s
TopSum(s, n) ==
    LET picks == {I \in SUBSET (1..Len(s)) : Cardinality(I) = n}
        SumOf(I) == SumSeq([k \in 1..Len(s) |-> IF k \in I THEN s[k] ELSE 0])
    IN CHOOSE v \in {SumOf(I) : I \in picks} : \A I \in picks : SumOf(I) <= v

RowPoints(player) ==
    LET rows == SelectSeq(course_results, LAMBDA r : r.season_id = 1 /\ r.player_name = player)
    IN [k \in 1..Len(rows) |-> rows[k].points]

EntriesOf(board, player) == {i \in 1..Len(board) : board[i].username = player}

C12_GateExcludes ==
    (lb_out # <<>> /\ scoring.min_courses_required > 0) =>
        \A i \in 1..Len(lb_out[1]) :
            lb_out[1][i].courses_completed >= scoring.min_courses_required

\* C15: when an update_all_messages call has returned, every enabled slot
\* has been reconciled or has failed itself: no slot was skipped because
\* another slot's embed or reconciliation failed.
C15_SlotsIndependent ==
    (sync.pc = "idle" /\ \E t \in SlotTypes : passes[t].done \/ passes[t].render_failed) =>
        \A t \in SlotTypes : toggles[t] => (passes[t].done \/ passes[t].render_failed)

-----------------------------------------------------------------------------
(* Claims about the update loop, stop_live_updates and force_update *)

\* C16: a force_update that began while a task of the loop was inside its
\* update_all_messages and that task's call never both send a new message
\* for the same slot of the season.
C16_RunsDoNotOverlap ==
    \A k \in overlap : tasks[k].sends \cap force.sends = {}

\* C17: a task of the loop that was stopped was not stopped between sending a
\* slot's new message and storing its mapping, nor after deleting a stale
\* mapping and before its replacement was stored.
C17_NoHalfUpdatedSlot ==
    \A k \in Tasks :
        tasks[k].pc = "done" =>
            /\ tasks[k].at # "store"
            /\ ~(tasks[k].at = "send" /\ tasks[k].deleted)

-----------------------------------------------------------------------------
(* Claims about stopping the log watcher and saving its position *)

\* C18: once stop_monitoring has returned, the monitoring loop does nothing
\* but leave: it takes no further step of a poll (stat, read, dispatch of
\* events, save of the position).
C18_StoppedLoopOnlyExits ==
    [][(~running /\ ~running') => wpc' \in {wpc, "off"}]_vars

\* C20: a restart after a crash inside save_position loads the offset the
\* position file held before that save (what load_position makes of the file
\* as it was) or the offset that save was writing.
C20_InterruptedSaveKeepsAnOffset ==
    (wpc = "loaded" /\ saving # <<>>) =>
        last_position \in {saving[1].new,
                           load_position(saving[1].previous, log_exists, Len(log_lines), 0)}

-----------------------------------------------------------------------------
(* Claims about removal, unknown courses, the expired flag and ended seasons *)

\* the rows of a table that belong to a season, in order
RowsOf(table, season_id) == SelectSeq(table, LAMBDA r : r.season_id = season_id)

\* C26: when a COURSE_REMOVED event has been carried out, every row of the
\* named course that was marked expired before the event is still in
\* season_courses, with its flag and its snapshot.
C26_ExpiredCourseStays ==
    handler.pc = "remove_done" =>
        \A i \in 1..Len(handler.pre[1].courses) :
            LET row == handler.pre[1].courses[i] IN
            (row.expired /\ row.full_course_name = handler.name) =>
                \E j \in 1..Len(season_courses) : season_courses[j] = row

\* C28: when an expiry event naming a course that the active season does not
\* hold has been carried out, course_results and player_scores are what they
\* were before the event.
C28_UnknownCourseDropped ==
    (handler.pc = "expire_done"
     /\ ~InSeason(handler.pre[1].courses, handler.season, handler.name)) =>
        /\ course_results = handler.pre[1].results
        /\ player_scores = handler.pre[1].scores

\* C29: when a COURSE_ADDED or an expiry event has been carried out, every
\* course that was marked expired before the event is still marked expired
\* and holds the snapshot it held.
C29_ExpiredOnce ==
    handler.pc \in {"add_done", "expire_done"} =>
        \A i \in 1..Len(handler.pre[1].courses) :
            LET row == handler.pre[1].courses[i] IN
            row.expired =>
                \E j \in 1..Len(season_courses) :
                    /\ season_courses[j].full_course_name = row.full_course_name
                    /\ season_courses[j].season_id = row.season_id
                    /\ season_courses[j].expired
                    /\ season_courses[j].final_standings = row.final_standings

NoSeasonActive == \A i \in 1..Len(seasons) : ~seasons[i].is_active

\* C27: while no season is active, an event that is processed leaves
\* season_courses, course_results and player_scores as they are and the
\* handler returns without an exception; and a COURSE_REMOVED for a full name
\* that the active season does not hold leaves the three tables as they are.
C27_NoSeasonNoChange ==
    [][/\ (NoSeasonActive /\ handler.pc = "idle") =>
             (Tables' = Tables /\ handler' = Idle)
       /\ (handler.pc = "remove"
           /\ ~InSeason(season_courses, handler.season, handler.name)) =>
             (Tables' = Tables /\ handler'.pc \in {"remove", "remove_done"})]_vars

\* an event has just been dropped for want of an active season, with rows in
\* the three tables
C27_Witness ==
    /\ reply = "No active season"
    /\ NoSeasonActive
    /\ handler = Idle
    /\ season_courses # <<>> /\ course_results # <<>> /\ player_scores # <<>>

\* C30: the rows of the ended season 1 in season_courses, course_results and
\* player_scores stay what they were when the season ended, whatever events
\* and season creations follow.
C30_EndedSeasonFrozen ==
    /\ RowsOf(season_courses, 1) = ArchivedTables.courses
    /\ RowsOf(course_results, 1) = ArchivedTables.results
    /\ RowsOf(player_scores, 1) = ArchivedTables.scores

-----------------------------------------------------------------------------
(* Claims about a tailed block *)

IsMalformed(line) == [kind |-> line.kind, text |-> line.text, json |-> line.json] \in MalformedTags

\* C21: the step of the block loop that takes a malformed tag leaves the
\* ledger's tables as they are and starts no handler; and when a block that
\* holds a malformed tag has been processed, every line of it has been handed
\* to its handler, the offset is past every line of the block, and after the
\* save the position file holds that offset.
C21_MalformedTagDropped ==
    /\ [][\A i \in 1..Len(new_content) :
            (wpc = "process" /\ cursor = i - 1 /\ cursor' = i
             /\ IsMalformed(new_content[i])) =>
               (Tables' = Tables /\ seasons' = seasons /\ handler' = Idle)]_vars
    /\ []((/\ wpc \in {"save_open", "save_write", "sleep"}
           /\ poll.result = "read"
           /\ \E i \in 1..Len(new_content) : IsMalformed(new_content[i])) =>
            /\ \A i \in 1..Len(new_content) :
                  new_content[i] \in dispatched /\ new_content[i].n <= last_position
            /\ wpc = "sleep" => position_file = <<IntText(last_position)>>)

-----------------------------------------------------------------------------
(* Claims about a poll and the loop around it *)

\* C25: a poll that finds the log missing, or its size equal to the offset,
\* ends there without an error: it goes to the loop's sleep having dispatched
\* nothing, with last_position, the position file and the ledger unchanged.
C25_EmptyPollChangesNothing ==
    [][(CheckStat /\ (~log_exists \/ Len(log_lines) = last_position)) =>
          /\ wpc' = "sleep"
          /\ poll'.result \in {"missing", "nochange"}
          /\ new_content' = <<>>
          /\ UNCHANGED <<last_position, position_file, dispatched, running>>
          /\ UNCHANGED <<seasons, season_courses, course_results, player_scores>>]_vars

\* a poll has found the log missing after events were dispatched and the
\* offset saved
C25_Witness ==
    /\ wpc = "sleep"
    /\ poll.result = "missing"
    /\ last_position > 0
    /\ position_file = <<IntText(last_position)>>
    /\ dispatched # {}

\* C24: after a poll in which an exception occurred, the loop's sleep before
\* the next poll is the back-off interval of 60 seconds.
C24_BackoffAfterException ==
    (wpc = "sleep" /\ poll.result = "error") =>
        SleepSeconds(check_log_file_raises(poll.result)) = BackoffInterval

\* C23: whatever start_monitoring and stop_monitoring calls are made, at most
\* one loop is inside check_log_file at a time, and a start_monitoring call
\* made while the flag is set starts no loop.
C23_OneLoopPolls ==
    /\ [](Cardinality({k \in 1..MaxLoops : loops[k] = "poll"}) <= 1)
    /\ [][\A k \in 1..MaxLoops :
            (running /\ loops[k] = "none" /\ loops'[k] # "none") => loops'[k] = "exited"]_vars

\* the log loop has ended a cycle in which the log was missing or the read
\* raised, or is in a cycle in which expire_course has raised
TailCycleFailed ==
    running /\ (\/ wpc = "sleep" /\ poll.result \in {"missing", "error"}
                \/ wpc = "process" /\ handler.pc = "expire_raised")

\* the update loop's call is past a fetch_message that raised: it sends a new
\* message although it has a stored id and has not found the message missing
UpdateCycleFailed ==
    /\ live_running
    /\ update_task # 0
    /\ LET r == tasks[update_task] IN
       r.pc = "send" /\ r.stored[Slots[r.slot]] # 0 /\ ~r.deleted

\* the update loop is at its test
UpdateAtTest == update_task # 0 /\ tasks[update_task].pc = "test"

\* C22: while its flag is set no loop ends, and after every cycle that failed
\* the log loop polls again and the update loop is at its test again, about to
\* call update_all_messages.
C22_LoopsRetry ==
    /\ [](running => wpc # "off")
    /\ [](live_running => (update_task # 0 /\ tasks[update_task].pc # "done"))
    /\ TailCycleFailed ~> (wpc = "poll")
    /\ UpdateCycleFailed ~> UpdateAtTest

\* the log loop polls again after a cycle whose read raised
C22_Witness == running /\ wpc = "poll" /\ poll.result = "error"

-----------------------------------------------------------------------------
(* Claims about the order of events and about the leaderboard's order *)

EmptyTables == [courses |-> <<>>, results |-> <<>>, scores |-> <<>>]

\* the standing entries from the k-th on, applied one after the other
RECURSIVE ExpireFrom(_, _, _, _, _)
ExpireFrom(tx, season_id, name, st, k) ==
    IF k > Len(st) THEN [exc |-> "none", tx |-> tx]
    ELSE LET r == ExpireEntry(tx, season_id, CourseNameOf(name), st[k]) IN
         IF r.exc # "none" THEN r ELSE ExpireFrom(r.tx, season_id, name, st, k + 1)

\* what one tag line amounts to when it is applied alone and to its end, in
\* season 1
ApplyLine(t, line) ==
    IF line.kind = "added"
    THEN LET p == ParseCourseAdded(line.text) IN
         IF p.ok THEN [t EXCEPT !.courses = add_season_course(@, 1, p.name, p.ts)] ELSE t
    ELSE IF line.kind = "removed"
    THEN [t EXCEPT !.courses = remove_season_course(@, 1, ParseCourseRemoved(line.text))]
    ELSE IF line.kind = "expired" /\ ParseCourseExpired(line.json).ok
    THEN LET obj == line.json.obj
             r == ExpireFrom([t EXCEPT !.courses = MarkExpired(@, 1, obj.coursename, obj)],
                             1, obj.coursename, StandingsOf(obj), 1) IN
         IF r.exc = "none" THEN r.tx ELSE t
    ELSE t

\* the lines of a block applied one after the other in the order of the text
RECURSIVE ApplyBlock(_, _)
ApplyBlock(t, lines) ==
    IF lines = <<>> THEN t ELSE ApplyBlock(ApplyLine(t, Head(lines)), Tail(lines))

\* C31: the block loop takes the lines in the order of the text, one at a
\* time and only when the handler of the line before has returned; and when
\* the first block of the log has been processed, the ledger is what its
\* lines amount to when they are applied one after the other in log order.
C31_BlockInLogOrder ==
    /\ [][(wpc = "process" /\ cursor' # cursor /\ cursor' # 0) =>
            /\ handler = Idle
            /\ cursor' = cursor + 1
            /\ dispatched' = dispatched \cup {new_content[cursor + 1]}]_vars
    /\ []((wpc = "save_open" /\ new_content # <<>> /\ new_content[1].n = 1) =>
            Tables = ApplyBlock(EmptyTables, new_content))

\* a block of COURSE_ADDED c followed by COURSE_REMOVED c has been processed:
\* the course is not in the ledger
C31_Witness ==
    /\ wpc = "save_open"
    /\ Len(new_content) = 2
    /\ new_content[1].n = 1
    /\ new_content[1].kind = "added" /\ ~IsMalformed(new_content[1])
    /\ new_content[2].kind = "removed"
    /\ season_courses = <<>>

\* C32: the leaderboard is ordered by total_points descending and, among
\* equal totals, by courses_completed descending, and the position of its
\* i-th row is i.
C32_LeaderboardOrder ==
    lb_out # <<>> =>
        LET lb == lb_out[1] IN
        /\ \A i \in 1..Len(lb) : lb[i].position = i
        /\ \A i, j \in 1..Len(lb) :
              i < j =>
                 /\ lb[i].total_points >= lb[j].total_points
                 /\ lb[i].total_points = lb[j].total_points =>
                       lb[i].courses_completed >= lb[j].courses_completed

\* two players with equal totals: bob, who has completed more courses, is
\* first although alice's rows are read first
C32_Witness ==
    /\ lb_out # <<>>
    /\ Len(lb_out[1]) = 2
    /\ lb_out[1][1].username = "bob"
    /\ lb_out[1][1].total_points = lb_out[1][2].total_points
    /\ lb_out[1][1].courses_completed > lb_out[1][2].courses_completed

-----------------------------------------------------------------------------
(* Claims about a failed fetch, the two point scales and the bytes of the log *)

\* C33: a slot whose stored message could not be fetched for another reason
\* than NotFound is skipped: a call sends a message for a slot only when the
\* slot had no stored id or the call has found the stored message missing and
\* deleted its mapping.
C33_TransientFetchSkipsSlot ==
    sync.pc = "store" =>
        LET t == Slots[sync.slot] IN
        sync.stored[t] = 0 \/ passes[t].deleted

\* C34: for every rank r >= 1 the points persisted with a result
\* (DatabaseManager.calculate_points) equal the points the course grid shows
\* for that rank (MessageFormatter.calculate_points).
C34_OnePointScale ==
    cp_out # <<>> =>
        \A k \in 1..2 :
            cp_in[k] >= 1 => cp_out[k] = MessageFormatter_calculate_points(cp_in[k])

\* C35: while the log is only appended to, no line is returned by two polls:
\* the block a poll is about to process holds no line that an earlier poll
\* has handed to the handlers.
C35_NoLineReadTwice ==
    (wpc = "process" /\ cursor = 0) =>
        \A i \in 1..Len(new_content) : new_content[i] \notin dispatched

-----------------------------------------------------------------------------
(* The log written piece by piece: a tag line in one write or in two *)

\* what one write of the game server puts into the log: the whole tag line n
\* with its newline, the first part of it (the end marker is not yet in the
\* file), or the rest of it; offsets count these writes
Piece(n, part) == [n |-> n, part |-> part]

\* the game server is between the two writes of a line
MidLine == log_lines # <<>> /\ log_lines[Len(log_lines)].part = "head"

\* the game server appends a tag line in one write
ServerWritesWhole ==
    /\ log_exists
    /\ ~MidLine
    /\ next_line <= MaxParts
    /\ log_lines' = Append(log_lines, Piece(next_line, "whole"))
    /\ next_line' = next_line + 1
    /\ UNCHANGED <<position_file, log_exists, last_position, running, wpc, current_size,
                   new_content, poll, dispatched, historical, saving>>

\* the game server appends the first part of a tag line
ServerWritesHead ==
    /\ log_exists
    /\ ~MidLine
    /\ next_line <= MaxParts
    /\ log_lines' = Append(log_lines, Piece(next_line, "head"))
    /\ next_line' = next_line + 1
    /\ UNCHANGED <<position_file, log_exists, last_position, running, wpc, current_size,
                   new_content, poll, dispatched, historical, saving>>

\* the game server appends the rest of the line it has begun
ServerWritesTail ==
    /\ log_exists
    /\ MidLine
    /\ log_lines' = Append(log_lines, Piece(log_lines[Len(log_lines)].n, "tail"))
    /\ UNCHANGED <<position_file, log_exists, next_line, last_position, running, wpc,
                   current_size, new_content, poll, dispatched, historical, saving>>

\* process_new_content, lines 122-127: the lines of content.split('\n') that
\* hold the start marker and the end marker, by number: a line written whole,
\* and a rest that follows its first part within the text
TagLinesIn(content) ==
    {content[i].n : i \in {j \in 1..Len(content) :
        \/ content[j].part = "whole"
        \/ /\ content[j].part = "tail"
           /\ j > 1
           /\ content[j - 1] = Piece(content[j].n, "head")}}

\* process_new_content over the pieces of a block
ProcessParts ==
    /\ wpc = "process"
    /\ dispatched' = dispatched \cup TagLinesIn(new_content)
    /\ wpc' = "save_open"
    /\ UNCHANGED <<log_exists, log_lines, next_line, position_file, last_position, running,
                   current_size, new_content, poll, historical, saving>>

\* the bot process dies at any point of a poll cycle and is started again
\* beside the position file: a new LogWatcher; the events that were handed to
\* the handlers stay handed
BotRestart ==
    /\ wpc # "off"
    /\ position_file # <<>>
    /\ last_position' = 0
    /\ running' = FALSE
    /\ wpc' = "off"
    /\ current_size' = 0
    /\ new_content' = <<>>
    /\ poll' = NoPoll
    /\ historical' = <<>>
    /\ UNCHANGED <<log_exists, log_lines, next_line, position_file, dispatched, saving>>

\* start_monitoring has loaded offset 0 beside an empty log
InitParts ==
    /\ seasons = <<>>
    /\ season_courses = <<>>
    /\ course_results = <<>>
    /\ player_scores = <<>>
    /\ SyncOff
    /\ handler = Idle
    /\ reply = ""
    /\ cp_in = <<0, 0>>
    /\ cp_out = <<>>
    /\ BoardOff
    /\ LiveOff
    /\ LoopsOff
    /\ log_exists = TRUE
    /\ log_lines = <<>>
    /\ next_line = 1
    /\ position_file = <<>>
    /\ last_position = 0
    /\ running = TRUE
    /\ wpc = "loaded"
    /\ current_size = 0
    /\ new_content = <<>>
    /\ poll = NoPoll
    /\ dispatched = {}
    /\ historical = << <<>> >>
    /\ saving = <<>>

NextParts ==
    \/ StartMonitoring /\ UNCHANGED notTail
    \/ LoopTest /\ UNCHANGED notTail
    \/ CheckStat /\ UNCHANGED notTail
    \/ CheckRead /\ UNCHANGED notTail
    \/ ProcessParts /\ UNCHANGED notTail
    \/ SaveOpen /\ UNCHANGED notTail
    \/ SaveWrite /\ UNCHANGED notTail
    \/ BotRestart /\ UNCHANGED notTail
    \/ ServerWritesWhole /\ UNCHANGED notTail
    \/ ServerWritesHead /\ UNCHANGED notTail
    \/ ServerWritesTail /\ UNCHANGED notTail

SpecParts == InitParts /\ [][NextParts]_vars

-----------------------------------------------------------------------------
(* The log after a rotation: a new file that grows beside the old offset *)

\* the tailer sleeps after the poll that dispatched line 0 of the old log and
\* saved offset 1; the old log has been moved away
InitRotate ==
    /\ seasons = <<>>
    /\ season_courses = <<>>
    /\ course_results = <<>>
    /\ player_scores = <<>>
    /\ SyncOff
    /\ handler = Idle
    /\ reply = ""
    /\ cp_in = <<0, 0>>
    /\ cp_out = <<>>
    /\ BoardOff
    /\ LiveOff
    /\ LoopsOff
    /\ log_exists = FALSE
    /\ log_lines = <<>>
    /\ next_line = 1
    /\ position_file = <<IntText(1)>>
    /\ last_position = 1
    /\ running = TRUE
    /\ wpc = "sleep"
    /\ current_size = 1
    /\ new_content = <<Piece(0, "whole")>>
    /\ poll = [rotated |-> FALSE, result |-> "read", whole |-> TRUE]
    /\ dispatched = {0}
    /\ historical = << <<>> >>
    /\ saving = <<>>

\* start_monitoring, lines 48-54: the loop goes on, poll after poll
TailStep ==
    \/ LoopTest /\ UNCHANGED notTail
    \/ CheckStat /\ UNCHANGED notTail
    \/ CheckRead /\ UNCHANGED notTail
    \/ ProcessParts /\ UNCHANGED notTail
    \/ SaveOpen /\ UNCHANGED notTail
    \/ SaveWrite /\ UNCHANGED notTail

NextRotate ==
    \/ TailStep
    \/ LogCreated /\ UNCHANGED notTail
    \/ ServerWritesWhole /\ UNCHANGED notTail

\* the event loop keeps running the monitoring task: every sleep ends and
\* every awaited file operation returns
SpecRotate == InitRotate /\ [][NextRotate]_vars /\ WF_vars(TailStep)

-----------------------------------------------------------------------------
(* update_all_messages reads the ledger while the log loop expires a course *)

\* the leaderboard query update_all_messages calls at line 96: the spec's
\* 'current leaderboard' of the season
get_season_leaderboard_with_projections(results, courses, season_id, settings) ==
    get_season_leaderboard(results, courses, season_id, settings)

\* get_active_courses, lines 399-416: the season's rows ORDER BY secret_until
\* ASC (rows of one timestamp in table order), each as a dict
get_active_courses(courses, season_id) ==
    LET rows == SelectSeq(courses, LAMBDA c : c.season_id = season_id)
        before(i) == {j \in 1..Len(rows) :
                        \/ rows[j].secret_until < rows[i].secret_until
                        \/ rows[j].secret_until = rows[i].secret_until /\ j < i}
        at(k) == CHOOSE i \in 1..Len(rows) : Cardinality(before(i)) = k - 1
    IN [k \in 1..Len(rows) |->
          [course_name |-> rows[at(k)].course_name,
           full_course_name |-> rows[at(k)].full_course_name,
           secret_until |-> rows[at(k)].secret_until,
           expired |-> rows[at(k)].expired,
           final_standings |-> rows[at(k)].final_standings]]

\* the locals of an update_all_messages call up to line 97
NoReads == [pc |-> "idle", season |-> 0, leaderboard |-> <<>>, courses |-> <<>>]

\* update_all_messages, lines 82-85: the active season; a call begins when
\* the one before has read
ReadSeason ==
    /\ sync.pc \in {"idle", "read"}
    /\ get_active_season(seasons) # 0
    /\ sync' = [NoReads EXCEPT !.pc = "leaderboard", !.season = get_active_season(seasons)]

\* update_all_messages, line 96: the leaderboard, from what is committed
ReadLeaderboard ==
    /\ sync.pc = "leaderboard"
    /\ sync' = [sync EXCEPT
                  !.pc = "courses",
                  !.leaderboard = <<get_season_leaderboard_with_projections(
                                      course_results, season_courses, sync.season, scoring)>>]

\* update_all_messages, line 97: the course list, from what is committed
ReadCourses ==
    /\ sync.pc = "courses"
    /\ sync' = [sync EXCEPT !.pc = "read",
                            !.courses = get_active_courses(season_courses, sync.season)]

\* the expiry events of the two courses of the season
ExpiryEvents ==
    { [decodes |-> TRUE,
       obj |-> [event |-> "secret_course_expired", coursename |-> <<"c">>,
                standings |-> <<Entry(1, "bob"), Entry(2, "alice")>>]],
      [decodes |-> TRUE,
       obj |-> [event |-> "secret_course_expired", coursename |-> <<"c">>,
                standings |-> <<Entry(1, "alice")>>]],
      [decodes |-> TRUE,
       obj |-> [event |-> "secret_course_expired", coursename |-> <<"a", "(", "x", ")">>,
                standings |-> <<Entry(1, "bob")>>]] }

\* season 1 is active and holds two courses, neither expired
InitReads ==
    /\ seasons = create_season(<<>>, 1).table
    /\ season_courses = << CourseRow(1, <<"c">>, 1), CourseRow(1, <<"a", "(", "x", ")">>, 1) >>
    /\ course_results = <<>>
    /\ player_scores = <<>>
    /\ bot_messages = <<>>
    /\ remote = {}
    /\ next_message_id = 1
    /\ toggles = [t \in SlotTypes |-> TRUE]
    /\ sync = NoReads
    /\ passes = [t \in SlotTypes |-> NoPass]
    /\ expect = [t \in SlotTypes |-> 0]
    /\ handler = Idle
    /\ reply = ""
    /\ cp_in = <<0, 0>>
    /\ cp_out = <<>>
    /\ BoardOff
    /\ LiveOff
    /\ LoopsOff
    /\ WatcherOff

notReads == <<bot_messages, remote, next_message_id, toggles, passes, expect, reply,
              pointVars, tailVars, boardVars, liveVars, loopVars>>

NextReads ==
    \/ ReadSeason /\ UNCHANGED <<notReads, handler, ledgerTables>>
    \/ ReadLeaderboard /\ UNCHANGED <<notReads, handler, ledgerTables>>
    \/ ReadCourses /\ UNCHANGED <<notReads, handler, ledgerTables>>
    \/ \E payload \in ExpiryEvents :
          DispatchCourseExpired(payload) /\ handler' # handler /\ UNCHANGED <<notReads, sync>>
    \/ ExpireUpdate /\ UNCHANGED <<notReads, sync>>
    \/ ExpireResult /\ UNCHANGED <<notReads, sync>>
    \/ ExpireCommit /\ UNCHANGED <<notReads, sync>>
    \/ HandlerReturn /\ UNCHANGED <<notReads, sync>>

SpecReads == InitReads /\ [][NextReads]_vars

-----------------------------------------------------------------------------
(* Claims about lines written in parts, rotation and restarts *)

\* the numbers of the tag lines that stand complete in the log
CompleteLines == TagLinesIn(log_lines)

\* the offset behind the last piece of line n in the log
EndOf(n) == CHOOSE i \in 1..Len(log_lines) :
                log_lines[i].n = n /\ log_lines[i].part \in {"whole", "tail"}

\* the complete lines that lie before the offset and that no poll has handed
\* to the handlers
PassedOver(offset) ==
    {n \in CompleteLines : n \notin dispatched /\ EndOf(n) <= offset}

\* C36: between polls, every tag line that stands complete in the log
\* before the offset has been dispatched, also when a poll read the file
\* while only the first part of the line was in it.
C36_PartialLineDispatched ==
    (wpc = "sleep" /\ poll.result = "read") => PassedOver(last_position) = {}

\* C38: after a crash and a restart beside the position file, the offset that
\* load_position takes from the file lies behind no complete tag line that
\* was never dispatched.
C38_RestartSkipsNothing ==
    (wpc = "loaded" /\ position_file # <<>>) => PassedOver(last_position) = {}

\* C37: every tag line of the file that replaced the rotated log is
\* dispatched in the end, whatever size the new file has at the next poll.
C37_NewFileDispatched ==
    \A n \in 1..MaxParts :
        (\E i \in 1..Len(log_lines) : log_lines[i] = Piece(n, "whole")) ~> (n \in dispatched)

\* the players of the standings of the courses a course list shows expired
ExpiredPlayers(courses) ==
    UNION { {StandingsOf(courses[i].final_standings[1])[k].username :
                k \in 1..Len(StandingsOf(courses[i].final_standings[1]))} :
            i \in {j \in 1..Len(courses) : courses[j].expired} }

\* the players a leaderboard lists
BoardPlayers(leaderboard) == {leaderboard[i].username : i \in 1..Len(leaderboard)}

\* C39: the leaderboard and the course list that one update_all_messages
\* call has read show whole expiries only: the players with results in the
\* leaderboard are the players of the standings of the courses that the
\* course list shows expired.
C39_ReadsShowWholeExpiry ==
    sync.pc = "read" => BoardPlayers(sync.leaderboard[1]) = ExpiredPlayers(sync.courses)

\* C40: a season start whose create_season fails leaves the ledger as it
\* was: the same season rows, the same active season, no new row.
C40_FailedCreateChangesNothing ==
    [][reply' = "error" =>
          /\ seasons' = seasons
          /\ get_active_season(seasons') = get_active_season(seasons)
          /\ UNCHANGED <<season_courses, course_results, player_scores>>]_vars

\* a create_season for the number of an ended season has failed beside the
\* active season
C40_Witness ==
    /\ reply = "error"
    /\ Len(seasons) = 2
    /\ seasons[1].ended
    /\ seasons[2].is_active

====
